---- MODULE Spec2Model ----
(***************************************************************************)
(* A model of the content-marketing agent pipeline: the campaign           *)
(* repository (src/src/utils/kv-store.ts), the intake stage (ManagerAgent, *)
(* src/unnamed/part_003), the research stage (ResearcherAgent), the        *)
(* copywriting stage (CopywriterAgent) and the scheduling stage            *)
(* (SchedulerAgent, two revisions).                                        *)
(*                                                                         *)
(* Conventions.  A JavaScript string is a sequence of one-character        *)
(* strings.  An optional value (T | undefined | null) is a sequence of     *)
(* length 0 or 1.  Time is an integer reading of the clock; a campaign id  *)
(* `campaign-${Date.now()}` is the pair <<"campaign", reading>>.           *)
(***************************************************************************)
EXTENDS Integers, Sequences, FiniteSets, Bags, TLC

VARIABLES
    campaigns,      \* kv keyspace "campaigns": stored id -> campaign
    campaignsIndex, \* kv key "campaigns_index": the campaignIds array
    clock,          \* the current reading of Date.now()
    faults,         \* kv calls that have thrown so far
    pc,             \* position of the stage invocation in flight
    local,          \* local variables of the stage invocation in flight
    resp,           \* calls made on the AgentResponse of the last invocation
    requests,       \* publish requests received by the publishing API
    run,            \* history of the pipeline run in flight
    saves,          \* the bag of ids saved by direct saveCampaign and
                    \* createCampaign calls
    found,          \* the last direct repository call and its result
    inflight        \* the repository operation each concurrent invocation
                    \* is in, and the step it is at

vars == <<campaigns, campaignsIndex, clock, faults, pc, local, resp,
          requests, run, saves, found, inflight>>

(***************************************************************************)
(* Bounds of the model.                                                    *)
(***************************************************************************)
\* Largest clock reading; also the number of distinct campaign ids.
MaxClock == 2
\* Store faults (a kv call that throws) injected in one behaviour.
MaxFaults == 1
\* Longest list of LinkedIn posts the generation collaborator returns.
MaxPosts == 2
\* Longest list of Twitter threads the generation collaborator returns.
MaxThreads == 1
\* Longest list of tweets in a generated thread.
MaxTweets == 1
\* Most direct saveCampaign calls in one behaviour.
MaxSaves == 3

(***************************************************************************)
(* Optional values.                                                        *)
(***************************************************************************)
None == <<>>

Some(x) == <<x>>

IsSome(o) == o # <<>>

Opt(S) == {None} \cup {Some(x) : x \in S}

(***************************************************************************)
(* Strings: String.prototype.toLowerCase, trim and includes.               *)
(***************************************************************************)
Chars == {"c", "C", "d", "D", " ", "x"}

LowerChar(ch) == IF ch = "C" THEN "c" ELSE IF ch = "D" THEN "d" ELSE ch

ToLowerCase(s) == [i \in 1..Len(s) |-> LowerChar(s[i])]

RECURSIVE TrimStart(_)
TrimStart(s) == IF s # <<>> /\ Head(s) = " " THEN TrimStart(Tail(s)) ELSE s

RECURSIVE TrimEnd(_)
TrimEnd(s) ==
    IF s # <<>> /\ s[Len(s)] = " " THEN TrimEnd(SubSeq(s, 1, Len(s) - 1)) ELSE s

Trim(s) == TrimEnd(TrimStart(s))

Includes(s, t) == \E i \in 1..(Len(s) - Len(t) + 1) : SubSeq(s, i, i + Len(t) - 1) = t

\* `!x || x.trim() === ""` for a string x.
IsBlank(s) == s = <<>> \/ Trim(s) = <<>>

\* The set of elements of a sequence.
Range(s) == {s[i] : i \in 1..Len(s)}

(***************************************************************************)
(* The campaign store: two keyspaces, campaign-by-id and the index.        *)
(***************************************************************************)
\* `campaign-${Date.now()}`
CampaignId(t) == <<"campaign", t>>

Ids == {CampaignId(t) : t \in 1..MaxClock}

\* A missing or empty id.
BlankId == <<>>

IsBlankId(id) == id = BlankId

\* A store: the campaigns keyspace (a function on the stored ids) and the
\* campaignIds array under the index key (absent = empty).
Store(cs, idx) == [campaigns |-> cs, index |-> idx]

EmptyStore == Store(<<>>, <<>>)

\* Outcome of the kv calls of one repository operation: TRUE = the call
\* returns, FALSE = it throws.
KvOutcomes == [get : BOOLEAN, set : BOOLEAN, idxGet : BOOLEAN, idxSet : BOOLEAN]

NoFault == [get |-> TRUE, set |-> TRUE, idxGet |-> TRUE, idxSet |-> TRUE]

\* The number of kv calls of f that throw.
FaultCount(f) ==
    (IF f.get THEN 0 ELSE 1) + (IF f.set THEN 0 ELSE 1)
    + (IF f.idxGet THEN 0 ELSE 1) + (IF f.idxSet THEN 0 ELSE 1)

\* A kv set that replaces the keyspace by the one key written.
KvSetAlone(cs, id, value) == [k \in {id} |-> value]

\* ctx.kv.set(CAMPAIGNS_STORE, id, value)
KvSet(cs, id, value) ==
    [k \in (DOMAIN cs) \cup {id} |-> IF k = id THEN value ELSE cs[k]]

\* getCampaign that answers an absent key with an empty campaign of that id.
GetCampaignRecovering(st, id, f) ==
    IF IsBlankId(id) THEN None
    ELSE IF ~f.get THEN None
    ELSE IF id \notin DOMAIN st.campaigns
    THEN Some([id |-> id, topic |-> <<>>, description |-> <<>>,
               publishDate |-> None, status |-> "planning",
               createdAt |-> 0, updatedAt |-> 0,
               research |-> None, content |-> None, schedulingInfo |-> None])
    ELSE LET campaign == st.campaigns[id]
         IN  Some(IF IsBlankId(campaign.id) THEN [campaign EXCEPT !.id = id]
                  ELSE campaign)

\* getCampaign: null for a blank id, a failing read or an absent key.
GetCampaign(st, id, f) ==
    IF IsBlankId(id) THEN None
    ELSE IF ~f.get THEN None
    ELSE IF id \notin DOMAIN st.campaigns THEN None
    ELSE LET campaign == st.campaigns[id]
         IN  Some(IF IsBlankId(campaign.id) THEN [campaign EXCEPT !.id = id]
                  ELSE campaign)

\* updateCampaignIndex without the check that the id is absent.
UpdateCampaignIndexAlways(idx, campaignId, f) ==
    IF IsBlankId(campaignId) THEN idx
    ELSE IF ~f.idxGet THEN idx
    ELSE IF ~f.idxSet THEN idx
    ELSE Append(SelectSeq(idx, LAMBDA id : ~IsBlankId(id)), campaignId)

\* updateCampaignIndex that appends the id whatever the kv calls did.
UpdateCampaignIndexForced(idx, campaignId, f) ==
    IF IsBlankId(campaignId) THEN idx
    ELSE LET campaignIds == SelectSeq(idx, LAMBDA id : ~IsBlankId(id))
         IN  IF campaignId \in Range(campaignIds) THEN idx
             ELSE Append(campaignIds, campaignId)

\* updateCampaignIndex: read the index, append the id if absent, write it back.
\* Every error is caught: the index is left as it was.
UpdateCampaignIndex(idx, campaignId, f) ==
    IF IsBlankId(campaignId) THEN idx
    ELSE IF ~f.idxGet THEN idx
    ELSE LET campaignIds == SelectSeq(idx, LAMBDA id : ~IsBlankId(id))
         IN  IF campaignId \in Range(campaignIds) THEN idx
             ELSE IF ~f.idxSet THEN idx
             ELSE Append(campaignIds, campaignId)

\* A sanitized copy that leaves the research out.
SanitizeScalars(c) ==
    [id |-> c.id, topic |-> c.topic, description |-> c.description,
     publishDate |-> c.publishDate, status |-> c.status,
     createdAt |-> c.createdAt, updatedAt |-> c.updatedAt,
     research |-> None, content |-> c.content,
     schedulingInfo |-> c.schedulingInfo]

\* The sanitized copy saveCampaign writes: the seven scalar fields and the
\* three optional attachments, each kept only when present.
Sanitize(c) ==
    [id |-> c.id, topic |-> c.topic, description |-> c.description,
     publishDate |-> c.publishDate, status |-> c.status,
     createdAt |-> c.createdAt, updatedAt |-> c.updatedAt,
     research |-> c.research, content |-> c.content,
     schedulingInfo |-> c.schedulingInfo]

\* saveCampaign: [st |-> the store afterwards, ok |-> the boolean returned].
SaveCampaign(st, c, f) ==
    IF IsBlankId(c.id) THEN [st |-> st, ok |-> FALSE]
    ELSE IF ~f.set THEN [st |-> st, ok |-> FALSE]
    ELSE [st |-> Store(KvSet(st.campaigns, c.id, Sanitize(c)),
                       UpdateCampaignIndex(st.index, c.id, f)),
          ok |-> TRUE]

\* Array.prototype.map(getCampaign) followed by the filter of null results.
RECURSIVE GetAll(_, _, _)
GetAll(st, ids, f) ==
    IF ids = <<>> THEN <<>>
    ELSE GetCampaign(st, Head(ids), f) \o GetAll(st, Tail(ids), f)

\* listCampaigns whose Promise.all rejects when one campaign read throws.
RECURSIVE GetEachOrNone(_, _, _)
GetEachOrNone(st, ids, failing) ==
    IF Range(ids) \cap failing # {} THEN <<>>
    ELSE IF ids = <<>> THEN <<>>
    ELSE GetCampaign(st, Head(ids), NoFault) \o GetEachOrNone(st, Tail(ids), failing)

\* campaignIds.map(getCampaign) where the kv read of each id in failing
\* throws: getCampaign catches it and gives null, which the filter drops.
RECURSIVE GetEach(_, _, _)
GetEach(st, ids, failing) ==
    IF ids = <<>> THEN <<>>
    ELSE GetCampaign(st, Head(ids), [NoFault EXCEPT !.get = Head(ids) \notin failing])
         \o GetEach(st, Tail(ids), failing)

\* listCampaigns: [] for a failing or empty index, else the campaigns the
\* index ids resolve to, in index order.
ListCampaigns(st, f) ==
    IF ~f.idxGet THEN <<>>
    ELSE GetAll(st, SelectSeq(st.index, LAMBDA id : ~IsBlankId(id)), f)

\* findCampaignsByTopic without the exact tier: every partial match.
FindCampaignsByTopicPartial(st, topic, f) ==
    IF IsBlank(topic) THEN <<>>
    ELSE SelectSeq(ListCampaigns(st, f),
                   LAMBDA c : Includes(ToLowerCase(c.topic), Trim(ToLowerCase(topic))))

\* findCampaignsByTopic without the partial tier: the exact matches only.
FindCampaignsByTopicExact(st, topic, f) ==
    IF IsBlank(topic) THEN <<>>
    ELSE SelectSeq(ListCampaigns(st, f),
                   LAMBDA c : Trim(ToLowerCase(c.topic)) = Trim(ToLowerCase(topic)))

\* findCampaignsByTopic: exact matches if any, else partial matches.
FindCampaignsByTopic(st, topic, f) ==
    IF IsBlank(topic) THEN <<>>
    ELSE LET allCampaigns == ListCampaigns(st, f)
             searchTerm   == Trim(ToLowerCase(topic))
             exactMatches ==
                 SelectSeq(allCampaigns,
                           LAMBDA c : Trim(ToLowerCase(c.topic)) = searchTerm)
         IN  IF Len(exactMatches) > 0 THEN exactMatches
             ELSE SelectSeq(allCampaigns,
                            LAMBDA c : Includes(ToLowerCase(c.topic), searchTerm))

\* The campaign object createCampaign builds.
NewCampaign(topic, description, publishDate, now) ==
    [id |-> CampaignId(now), topic |-> topic, description |-> description,
     publishDate |-> publishDate, status |-> "planning",
     createdAt |-> now, updatedAt |-> now,
     research |-> None, content |-> None, schedulingInfo |-> None]

\* createCampaign without the validation of the topic.
CreateCampaignAnyTopic(st, topic, description, publishDate, now, f) ==
    LET campaign == NewCampaign(topic, description, publishDate, now)
        saved    == SaveCampaign(st, campaign, f)
    IN  IF ~saved.ok THEN [st |-> st, ok |-> FALSE, campaign |-> None]
        ELSE [st |-> saved.st, ok |-> TRUE, campaign |-> Some(campaign)]

\* createCampaign: throws (ok = FALSE) for a blank topic or a failed save.
CreateCampaign(st, topic, description, publishDate, now, f) ==
    IF IsBlank(topic) THEN [st |-> st, ok |-> FALSE, campaign |-> None]
    ELSE LET campaign == NewCampaign(topic, description, publishDate, now)
             saved    == SaveCampaign(st, campaign, f)
         IN  IF ~saved.ok THEN [st |-> st, ok |-> FALSE, campaign |-> None]
             ELSE [st |-> saved.st, ok |-> TRUE, campaign |-> Some(campaign)]

\* updateCampaignStatus that saves a campaign without its research.
UpdateCampaignStatusFresh(st, campaignId, status, now, f) ==
    LET got == GetCampaign(st, campaignId, f)
    IN  IF got = None THEN [st |-> st, campaign |-> None]
        ELSE LET campaign == [got[1] EXCEPT !.status = status, !.updatedAt = now,
                                            !.research = None]
             IN  [st |-> SaveCampaign(st, campaign, f).st,
                  campaign |-> Some(campaign)]

\* updateCampaignStatus: read, set status and updatedAt, save; the result of
\* the save is ignored.
UpdateCampaignStatus(st, campaignId, status, now, f) ==
    LET got == GetCampaign(st, campaignId, f)
    IN  IF got = None THEN [st |-> st, campaign |-> None]
        ELSE LET campaign == [got[1] EXCEPT !.status = status, !.updatedAt = now]
             IN  [st |-> SaveCampaign(st, campaign, f).st,
                  campaign |-> Some(campaign)]

\* The concurrent invocations that call the repository.
Invocations == {1, 2}

\* An invocation that is in no repository operation: `at` is the step it is
\* at, `campaign` the object it holds, `campaignIds` the index array it read,
\* `ok` what its last saveCampaign returned.
NoCall == [at |-> "idle", campaign |-> None, campaignIds |-> <<>>, ok |-> FALSE]

(***************************************************************************)
(* Inputs of the model.                                                    *)
(***************************************************************************)
\* Topic strings: "C", " c", "Cd", "d ", "c d".
Topics ==
    {<<"C">>, <<" ", "c">>, <<"C", "d">>, <<"d", " ">>, <<"c", " ", "d">>}

\* Query strings: "", " ", "c", " C", "d", "D ", "cd", "x".
Queries ==
    {<<>>, <<" ">>, <<"c">>, <<" ", "C">>, <<"d">>, <<"D", " ">>, <<"c", "d">>,
     <<"x">>}

\* A date-string: whether Date parses it, and the day it names.
DateString(parses, day) == [parses |-> parses, day |-> day]

\* A day later than every clock reading of the model.
FutureDay == MaxClock + 3

\* publishDate inputs: absent, unparsable, a past day, a future day.
PublishDates ==
    {None, Some(DateString(FALSE, 0)), Some(DateString(TRUE, 0)),
     Some(DateString(TRUE, FutureDay))}

\* description inputs: absent (or empty), or a text.
Descriptions == {<<>>, <<"d">>}

\* domain (source url) inputs: absent (or empty), or a url.
Domains == {<<>>, <<"u">>}

(***************************************************************************)
(* AgentResponse and handoff payloads.                                     *)
(***************************************************************************)
\* The calls made on an AgentResponse: resp.json(body) and
\* resp.handoff({name}, {data}).
NoResponse == [json |-> <<>>, handoff |-> <<>>]

Json(body) == [json |-> <<body>>, handoff |-> <<>>]

Handoff(name, data) == [json |-> <<>>, handoff |-> <<[name |-> name, data |-> data]>>]

ErrorBody(msg) == [status |-> "error", error |-> msg]

\* A payload: the fields a stage reads from req.data.json; an absent field is
\* the empty string, the blank id or None.
Payload(campaignId, topic, description, publishDate, source, research) ==
    [campaignId |-> campaignId, topic |-> topic, description |-> description,
     publishDate |-> publishDate, source |-> source, research |-> research]

NoPayload == Payload(BlankId, <<>>, <<>>, None, <<>>, None)

NoLocal == [campaign |-> None, data |-> NoPayload, date |-> None]

\* The history of a pipeline run: the id of its campaign, the status persisted
\* by each write of that campaign, whether the intake request carried a source,
\* whether no store call failed and no credential was missing, whether the
\* run started at intake, the structured request intake worked on (None when
\* it had no topic), and the stages invoked so far.
NoRun ==
    [campaignId |-> BlankId, statuses |-> <<>>, source |-> FALSE,
     clean |-> TRUE, intake |-> FALSE, request |-> None, path |-> <<>>]

\* The status persisted for the run's campaign, appended to the history when a
\* step wrote the campaign.
LogWrite(r, before, after) ==
    IF r.campaignId \in DOMAIN after.campaigns
       /\ (r.campaignId \notin DOMAIN before.campaigns
           \/ before.campaigns[r.campaignId] # after.campaigns[r.campaignId])
    THEN [r EXCEPT !.statuses = Append(@, after.campaigns[r.campaignId].status)]
    ELSE r

(***************************************************************************)
(* Intake: ManagerAgent.                                                   *)
(***************************************************************************)
\* A request: topic (json.topic || text), description, publishDate, domain.
Request(topic, description, publishDate, domain) ==
    [topic |-> topic, description |-> description, publishDate |-> publishDate,
     domain |-> domain]

\* extractStructuredData: the extracted object, its topic replaced by the text
\* when blank; {topic: text} on failure.
ExtractStructuredData(text, data, ext) ==
    IF ext = None THEN [data EXCEPT !.topic = text]
    ELSE [topic |-> IF IsBlank(ext[1].topic) THEN Trim(text) ELSE ext[1].topic,
          description |-> ext[1].description,
          publishDate |-> ext[1].publishDate,
          domain |-> ext[1].domain]

\* The summaries of the existing campaigns returned by intake.
SerializeCampaigns(cs) ==
    [i \in 1..Len(cs) |->
        [id |-> cs[i].id, topic |-> cs[i].topic,
         description |-> cs[i].description, status |-> cs[i].status,
         createdAt |-> cs[i].createdAt, updatedAt |-> cs[i].updatedAt]]

ExistingFound(cs) ==
    [status |-> "existing_found", existingCampaigns |-> SerializeCampaigns(cs)]

\* The payload intake hands off.
ManagerPayload(campaign, source) ==
    Payload(campaign.id, campaign.topic, campaign.description,
            campaign.publishDate, source, None)

\* ManagerAgent (first revision) without the search for existing campaigns.
ManagerResultNoSearch(st, req, ext, now, fFind, fSave) ==
    IF IsBlank(req.topic)
    THEN [st |-> st, resp |-> Json(ErrorBody("Missing a topic")), request |-> None]
    ELSE
    LET topic == Trim(req.topic)
        data0 == [req EXCEPT !.topic = topic]
        data  == IF data0.description = <<>> /\ data0.publishDate = None
                 THEN ExtractStructuredData(topic, data0, ext)
                 ELSE data0
        created == CreateCampaign(st, data.topic, data.description,
                                  data.publishDate, now, fSave)
    IN  IF ~created.ok
        THEN [st |-> st, resp |-> Json(ErrorBody("Failed to create campaign")),
              request |-> Some(data)]
        ELSE LET payload == ManagerPayload(created.campaign[1], data.domain)
             IN  [st |-> created.st,
                  resp |-> IF payload.source = <<>>
                           THEN Handoff("copywriter", payload)
                           ELSE Handoff("researcher", payload),
                  request |-> Some(data)]

\* ManagerAgent (first revision): the store and the response after the whole
\* handler, and its structured request.
ManagerResult(st, req, ext, now, fFind, fSave) ==
    IF IsBlank(req.topic)
    THEN [st |-> st, resp |-> Json(ErrorBody("Missing a topic")), request |-> None]
    ELSE
    LET topic == Trim(req.topic)
        data0 == [req EXCEPT !.topic = topic]
        data  == IF data0.description = <<>> /\ data0.publishDate = None
                 THEN ExtractStructuredData(topic, data0, ext)
                 ELSE data0
        existingCampaigns == FindCampaignsByTopic(st, data.topic, fFind)
    IN  IF Len(existingCampaigns) > 0
        THEN [st |-> st, resp |-> Json(ExistingFound(existingCampaigns)),
              request |-> Some(data)]
        ELSE
        LET created == CreateCampaign(st, data.topic, data.description,
                                      data.publishDate, now, fSave)
        IN  IF ~created.ok
            THEN [st |-> st, resp |-> Json(ErrorBody("Failed to create campaign")),
                  request |-> Some(data)]
            ELSE LET payload == ManagerPayload(created.campaign[1], data.domain)
                 IN  [st |-> created.st,
                      resp |-> IF payload.source = <<>>
                               THEN Handoff("copywriter", payload)
                               ELSE Handoff("researcher", payload),
                      request |-> Some(data)]

\* enrichRequestData (second revision): the request as given when it has a
\* description, a publish date or a domain; else the extracted object, or
\* {topic} when the extraction fails.
EnrichRequestData(data, ext) ==
    IF data.description # <<>> \/ data.publishDate # None \/ data.domain # <<>>
    THEN data
    ELSE IF ext = None
    THEN [topic |-> data.topic, description |-> <<>>, publishDate |-> None,
          domain |-> <<>>]
    ELSE ext[1]

\* ManagerAgent (second revision): the store and the response after the whole
\* handler, and its structured request.
ManagerResultV2(st, req, ext, now, fFind, fSave) ==
    LET requestData == [req EXCEPT !.topic = Trim(req.topic)]
    IN  IF requestData.topic = <<>>
        THEN [st |-> st, resp |-> Json(ErrorBody("Missing topic")),
              request |-> None]
        ELSE
        LET request == EnrichRequestData(requestData, ext)
            existingCampaigns == FindCampaignsByTopic(st, request.topic, fFind)
        IN  IF Len(existingCampaigns) > 0
            THEN [st |-> st, resp |-> Json(ExistingFound(existingCampaigns)),
                  request |-> Some(request)]
            ELSE
            LET created == CreateCampaign(st, request.topic, request.description,
                                          request.publishDate, now, fSave)
            IN  IF ~created.ok
                THEN [st |-> st,
                      resp |-> Json(ErrorBody("Failed to create campaign")),
                      request |-> Some(request)]
                ELSE [st |-> created.st,
                      resp |-> Handoff("copywriter",
                                       ManagerPayload(created.campaign[1],
                                                      request.domain)),
                      request |-> Some(request)]

(***************************************************************************)
(* Research: ResearcherAgent.                                              *)
(***************************************************************************)
\* Research results: who produced them (the analysis model, or the local
\* fallback), for which topic and description, from which sources, and
\* whether the analysed text was extracted from the page or the placeholder.
Research(kind, topic, description, sources, extracted) ==
    [kind |-> kind, title |-> topic, description |-> description,
     sources |-> sources, extracted |-> extracted]

\* createFallbackResearch
CreateFallbackResearch(topic, description, sourceUrl) ==
    Research("fallback", topic, description,
             IF sourceUrl = <<>> THEN <<>> ELSE <<sourceUrl>>, FALSE)

\* researchFromSource: extractContentWithFirecrawl substitutes a placeholder
\* when the extraction fails; analyzeContent substitutes the fallback research
\* when the analysis fails.
ResearchFromSource(topic, description, sourceUrl, extractOK, analyzeOK) ==
    IF analyzeOK
    THEN Research("analysis", topic, description, <<sourceUrl>>, extractOK)
    ELSE CreateFallbackResearch(topic, description, sourceUrl)

\* ResearcherAgent that hands the request on when it finds no campaign.
ResearcherEntryLenient(st, data, now, fGet, fUpd) ==
    IF data.topic = <<>> \/ IsBlankId(data.campaignId) \/ data.source = <<>>
    THEN [done |-> TRUE, st |-> st, campaign |-> None,
          resp |-> Json(ErrorBody("Missing required fields"))]
    ELSE LET campaign == GetCampaign(st, data.campaignId, fGet)
         IN  IF campaign = None
             THEN [done |-> TRUE, st |-> st, campaign |-> None,
                   resp |-> Handoff("copywriter", data)]
             ELSE [done |-> FALSE,
                   st |-> UpdateCampaignStatus(st, campaign[1].id, "researching",
                                               now, fUpd).st,
                   campaign |-> campaign, resp |-> NoResponse]

\* ResearcherAgent up to and including updateCampaignStatus: a terminal
\* response (done), or the campaign read at entry.
ResearcherEntry(st, data, now, fGet, fUpd) ==
    IF data.topic = <<>> \/ IsBlankId(data.campaignId) \/ data.source = <<>>
    THEN [done |-> TRUE, st |-> st, campaign |-> None,
          resp |-> Json(ErrorBody("Missing required fields"))]
    ELSE LET campaign == GetCampaign(st, data.campaignId, fGet)
         IN  IF campaign = None
             THEN [done |-> TRUE, st |-> st, campaign |-> None,
                   resp |-> Json(ErrorBody("Campaign not found"))]
             ELSE [done |-> FALSE,
                   st |-> UpdateCampaignStatus(st, campaign[1].id, "researching",
                                               now, fUpd).st,
                   campaign |-> campaign, resp |-> NoResponse]

\* ResearcherAgent from researchFromSource on, without the final return.
ResearcherAttachNoReturn(st, campaign, data, extractOK, analyzeOK, now, f) ==
    LET researchResults ==
            ResearchFromSource(data.topic, data.description, data.source,
                               extractOK, analyzeOK)
        updated == [campaign EXCEPT !.research = Some(researchResults),
                                    !.updatedAt = now]
    IN  [st |-> SaveCampaign(st, updated, f).st, resp |-> NoResponse]

\* ResearcherAgent from researchFromSource on: attach the research to the
\* campaign read at entry, save it, hand off to the copywriter.
ResearcherAttach(st, campaign, data, extractOK, analyzeOK, now, f) ==
    LET researchResults ==
            ResearchFromSource(data.topic, data.description, data.source,
                               extractOK, analyzeOK)
        updated == [campaign EXCEPT !.research = Some(researchResults),
                                    !.updatedAt = now]
    IN  [st |-> SaveCampaign(st, updated, f).st,
         resp |-> Handoff("copywriter",
                          Payload(campaign.id, campaign.topic, <<>>, None, <<>>,
                                  Some(researchResults)))]

(***************************************************************************)
(* Copywriting: CopywriterAgent.                                           *)
(***************************************************************************)
Post(platform, content) ==
    [platform |-> platform, content |-> content, scheduledDate |-> None,
     typefullyId |-> None]

Thread(tweets) == [tweets |-> tweets, scheduledDate |-> None, typefullyId |-> None]

\* Texts of a generated LinkedIn post: empty, or some text.
PostTexts == {<<>>, <<"p">>}

\* The posts the generation model returns: up to MaxPosts texts.
GeneratedPosts == UNION {[1..n -> PostTexts] : n \in 0..MaxPosts}

\* The tweets of a generated thread: up to MaxTweets texts.
GeneratedTweets == UNION {[1..n -> {<<"t">>}] : n \in 0..MaxTweets}

\* The threads the generation model returns: up to MaxThreads tweet lists.
GeneratedThreads == UNION {[1..n -> GeneratedTweets] : n \in 0..MaxThreads}

\* The research the copywriter writes from: the payload's research, else a
\* minimal one built from the payload's topic, else one built from the campaign.
CopywriterResearch(data, campaign) ==
    IF data.research # None THEN data.research[1]
    ELSE IF data.topic # <<>>
    THEN Research("minimal", data.topic,
                  IF data.description # <<>> THEN data.description
                  ELSE campaign.description, <<>>, FALSE)
    ELSE Research("minimal", campaign.topic, campaign.description, <<>>, FALSE)

\* generateLinkedInPosts whose catch branch returns no post.
GenerateLinkedInPostsNoFallback(research, topic, gen) ==
    IF gen = None THEN <<>>
    ELSE [i \in 1..Len(gen[1]) |-> Post("linkedin", gen[1][i])]

\* generateLinkedInPosts: the generated posts, or one fallback post.
GenerateLinkedInPosts(research, topic, gen) ==
    IF gen = None THEN <<Post("linkedin", <<"f">>)>>
    ELSE [i \in 1..Len(gen[1]) |-> Post("linkedin", gen[1][i])]

\* generateTwitterThreads: the generated threads, or one fallback thread of
\* four tweets, the second being the research description.
GenerateTwitterThreads(research, topic, gen) ==
    IF gen = None
    THEN <<Thread(<<Post("twitter", <<"f">>),
                    Post("twitter", research.description),
                    Post("twitter", <<"k">>),
                    Post("twitter", <<"f">>)>>)>>
    ELSE [i \in 1..Len(gen[1]) |->
            Thread([j \in 1..Len(gen[1][i]) |-> Post("twitter", gen[1][i][j])])]

\* CopywriterAgent that takes the first campaign id when it is given none.
CopywriterEntryDefaultId(st, data, now, fGet, fUpd) ==
    LET campaignId == IF IsBlankId(data.campaignId) THEN CampaignId(1)
                      ELSE data.campaignId
        campaign == GetCampaign(st, campaignId, fGet)
    IN  IF campaign = None
        THEN [done |-> TRUE, st |-> st, campaign |-> None,
              resp |-> Json(ErrorBody("Campaign not found"))]
        ELSE [done |-> FALSE,
              st |-> UpdateCampaignStatus(st, campaign[1].id, "writing",
                                          now, fUpd).st,
              campaign |-> campaign, resp |-> NoResponse]

\* CopywriterAgent up to and including updateCampaignStatus.
CopywriterEntry(st, data, now, fGet, fUpd) ==
    IF IsBlankId(data.campaignId)
    THEN [done |-> TRUE, st |-> st, campaign |-> None,
          resp |-> Json(ErrorBody("Missing required field: campaignId"))]
    ELSE LET campaign == GetCampaign(st, data.campaignId, fGet)
         IN  IF campaign = None
             THEN [done |-> TRUE, st |-> st, campaign |-> None,
                   resp |-> Json(ErrorBody("Campaign not found"))]
             ELSE [done |-> FALSE,
                   st |-> UpdateCampaignStatus(st, campaign[1].id, "writing",
                                               now, fUpd).st,
                   campaign |-> campaign, resp |-> NoResponse]

\* CopywriterAgent that saves the updated campaign under an id minted anew.
CopywriterAttachReminting(st, campaign, data, genPosts, genThreads, now, f) ==
    LET research == CopywriterResearch(data, campaign)
        campaignContent ==
            [linkedInPosts |-> GenerateLinkedInPosts(research, campaign.topic, genPosts),
             twitterThreads |-> GenerateTwitterThreads(research, campaign.topic, genThreads)]
        updatedCampaign ==
            [id |-> CampaignId(now + 1), topic |-> campaign.topic,
             description |-> campaign.description,
             publishDate |-> campaign.publishDate,
             status |-> campaign.status,
             createdAt |-> campaign.createdAt, updatedAt |-> now,
             research |-> campaign.research,
             content |-> Some(campaignContent), schedulingInfo |-> None]
        saved == SaveCampaign(st, updatedCampaign, f)
    IN  IF ~saved.ok
        THEN [st |-> saved.st,
              resp |-> Json(ErrorBody("Failed to save campaign with generated content"))]
        ELSE [st |-> saved.st,
              resp |-> Handoff("scheduler",
                               Payload(updatedCampaign.id, <<>>, <<>>,
                                       updatedCampaign.publishDate, <<>>, None))]

\* CopywriterAgent from the generation on: build the updated campaign from the
\* campaign read at entry, save it, hand off to the scheduler.
CopywriterAttach(st, campaign, data, genPosts, genThreads, now, f) ==
    LET research == CopywriterResearch(data, campaign)
        campaignContent ==
            [linkedInPosts |-> GenerateLinkedInPosts(research, campaign.topic, genPosts),
             twitterThreads |-> GenerateTwitterThreads(research, campaign.topic, genThreads)]
        updatedCampaign ==
            [id |-> campaign.id, topic |-> campaign.topic,
             description |-> campaign.description,
             publishDate |-> campaign.publishDate,
             status |-> campaign.status,
             createdAt |-> campaign.createdAt, updatedAt |-> now,
             research |-> campaign.research,
             content |-> Some(campaignContent), schedulingInfo |-> None]
        saved == SaveCampaign(st, updatedCampaign, f)
    IN  IF ~saved.ok
        THEN [st |-> saved.st,
              resp |-> Json(ErrorBody("Failed to save campaign with generated content"))]
        ELSE [st |-> saved.st,
              resp |-> Handoff("scheduler",
                               Payload(updatedCampaign.id, <<>>, <<>>,
                                       updatedCampaign.publishDate, <<>>, None))]

(***************************************************************************)
(* Scheduling: SchedulerAgent, in its two revisions.                       *)
(***************************************************************************)
\* Days in the default scheduling delay of the first revision.
WeekDays == 7

\* The id the publishing API returns for the k-th request it receives.
DraftId(k) == <<"draft", k>>

\* `linkedin-post-${i}`, `twitter-thread-${i}`
PostId(prefix, i) == <<prefix, i>>

ScheduledPost(postId, typefullyId, scheduledDate, status) ==
    [postId |-> postId, typefullyId |-> typefullyId,
     scheduledDate |-> scheduledDate, status |-> status]

\* Array.prototype.join over the texts of a thread's tweets; the separator
\* "\n\n\n\n" is the one-character string "|".
RECURSIVE Join(_)
Join(tweets) ==
    IF tweets = <<>> THEN <<>>
    ELSE IF Len(tweets) = 1 THEN tweets[1].content
    ELSE tweets[1].content \o <<"|">> \o Join(Tail(tweets))

\* The request body createTypefullyDraft posts, with the API's answer.
Draft(content, platform, threadify, scheduleDate, ok) ==
    [content |-> content, platform |-> platform, threadify |-> threadify,
     scheduleDate |-> scheduleDate, ok |-> ok]

\* The state of a scheduling loop: the records pushed, the items (mutated in
\* place on success) and the requests the API has received.
Loop(scheduled, items, log) == [scheduled |-> scheduled, items |-> items, log |-> log]

\* One iteration of the loop of scheduleLinkedInPosts that lacks the catch
\* branch: the record is scheduled whatever the API answered.
PublishPostNoCatch(acc, i, postDate, oks) ==
    LET k  == Len(acc.log) + 1
        rq == Draft(acc.items[i].content, "linkedin", FALSE, postDate, oks[k])
    IN  Loop(Append(acc.scheduled,
                    ScheduledPost(PostId("linkedin-post", i - 1), DraftId(k),
                                  postDate, "scheduled")),
             [acc.items EXCEPT ![i].scheduledDate = Some(postDate),
                               ![i].typefullyId = Some(DraftId(k))],
             Append(acc.log, rq))

\* One iteration of the loop of scheduleLinkedInPosts that dates the record of
\* a failed request a day later.
PublishPostPostponing(acc, i, postDate, oks) ==
    LET k  == Len(acc.log) + 1
        rq == Draft(acc.items[i].content, "linkedin", FALSE, postDate, oks[k])
    IN  IF oks[k]
        THEN Loop(Append(acc.scheduled,
                         ScheduledPost(PostId("linkedin-post", i - 1), DraftId(k),
                                       postDate, "scheduled")),
                  [acc.items EXCEPT ![i].scheduledDate = Some(postDate),
                                    ![i].typefullyId = Some(DraftId(k))],
                  Append(acc.log, rq))
        ELSE Loop(Append(acc.scheduled,
                         ScheduledPost(PostId("linkedin-post", i - 1), <<>>,
                                       postDate + 1, "failed")),
                  acc.items, Append(acc.log, rq))

\* One iteration of the loop of scheduleLinkedInPosts: request a draft for
\* posts[i], push a scheduled record and mark the post, or push a failed record.
PublishPost(acc, i, postDate, oks) ==
    LET k  == Len(acc.log) + 1
        rq == Draft(acc.items[i].content, "linkedin", FALSE, postDate, oks[k])
    IN  IF oks[k]
        THEN Loop(Append(acc.scheduled,
                         ScheduledPost(PostId("linkedin-post", i - 1), DraftId(k),
                                       postDate, "scheduled")),
                  [acc.items EXCEPT ![i].scheduledDate = Some(postDate),
                                    ![i].typefullyId = Some(DraftId(k))],
                  Append(acc.log, rq))
        ELSE Loop(Append(acc.scheduled,
                         ScheduledPost(PostId("linkedin-post", i - 1), <<>>,
                                       postDate, "failed")),
                  acc.items, Append(acc.log, rq))

\* One iteration of the loop of scheduleTwitterThreads.
PublishThread(acc, i, postDate, oks) ==
    LET k  == Len(acc.log) + 1
        rq == Draft(Join(acc.items[i].tweets), "twitter", TRUE, postDate, oks[k])
    IN  IF oks[k]
        THEN Loop(Append(acc.scheduled,
                         ScheduledPost(PostId("twitter-thread", i - 1), DraftId(k),
                                       postDate, "scheduled")),
                  [acc.items EXCEPT ![i].scheduledDate = Some(postDate),
                                    ![i].typefullyId = Some(DraftId(k))],
                  Append(acc.log, rq))
        ELSE Loop(Append(acc.scheduled,
                         ScheduledPost(PostId("twitter-thread", i - 1), <<>>,
                                       postDate, "failed")),
                  acc.items, Append(acc.log, rq))

\* calculateSchedulingDate (first revision): new Date(publishDateStr), or one
\* week from now; None is Invalid Date.
CalculateSchedulingDate(publishDateStr, now) ==
    IF publishDateStr = None THEN Some(now + WeekDays)
    ELSE IF publishDateStr[1].parses THEN Some(publishDateStr[1].day)
    ELSE None

\* scheduleLinkedInPosts (first revision), from post i on: every post is
\* requested on the one publish date.
RECURSIVE LinkedInLoop(_, _, _, _)
LinkedInLoop(acc, i, scheduledDate, oks) ==
    IF i > Len(acc.items) THEN acc
    ELSE LinkedInLoop(PublishPost(acc, i, scheduledDate, oks), i + 1,
                      scheduledDate, oks)

\* scheduleLinkedInPosts (first revision): publishDate.toISOString() throws
\* for Invalid Date, the outer catch then returns no record.
ScheduleLinkedInPosts(posts, publishDate, oks, log) ==
    IF publishDate = None THEN Loop(<<>>, posts, log)
    ELSE LinkedInLoop(Loop(<<>>, posts, log), 1, publishDate[1], oks)

\* scheduleTwitterThreads (first revision), from thread i on.
RECURSIVE TwitterLoop(_, _, _, _)
TwitterLoop(acc, i, scheduledDate, oks) ==
    IF i > Len(acc.items) THEN acc
    ELSE TwitterLoop(PublishThread(acc, i, scheduledDate, oks), i + 1,
                     scheduledDate, oks)

\* scheduleTwitterThreads (first revision).
ScheduleTwitterThreads(threads, publishDate, oks, log) ==
    IF publishDate = None THEN Loop(<<>>, threads, log)
    ELSE TwitterLoop(Loop(<<>>, threads, log), 1, publishDate[1], oks)

\* getValidDate: the publish date when it parses and is in the future, else
\* tomorrow.
GetValidDate(publishDate, now) ==
    IF publishDate # None /\ publishDate[1].parses /\ publishDate[1].day > now
    THEN publishDate[1].day
    ELSE now + 1

\* incrementDateByDays
IncrementDateByDays(date, days) == date + days

\* Math.min
Min(a, b) == IF a < b THEN a ELSE b

\* scheduleLinkedInPosts (second revision), from post i on: a post without
\* content is skipped, before any request and without a record.
RECURSIVE LinkedInLoopV2(_, _, _, _)
LinkedInLoopV2(acc, i, scheduledDates, oks) ==
    IF i > Len(acc.items) THEN acc
    ELSE LET postDate == scheduledDates[Min(i, Len(scheduledDates))]
         IN  IF acc.items[i].content = <<>>
             THEN LinkedInLoopV2(acc, i + 1, scheduledDates, oks)
             ELSE LinkedInLoopV2(PublishPost(acc, i, postDate, oks), i + 1,
                                 scheduledDates, oks)

\* scheduleLinkedInPosts (second revision).
ScheduleLinkedInPostsV2(posts, scheduledDates, oks, log) ==
    IF Len(scheduledDates) = 0 THEN Loop(<<>>, posts, log)
    ELSE LinkedInLoopV2(Loop(<<>>, posts, log), 1, scheduledDates, oks)

\* scheduleTwitterThreads (second revision), from thread i on: a thread
\* without tweets is skipped, before any request and without a record.
RECURSIVE TwitterLoopV2(_, _, _, _)
TwitterLoopV2(acc, i, scheduledDates, oks) ==
    IF i > Len(acc.items) THEN acc
    ELSE LET postDate == scheduledDates[Min(i, Len(scheduledDates))]
         IN  IF Len(acc.items[i].tweets) = 0
             THEN TwitterLoopV2(acc, i + 1, scheduledDates, oks)
             ELSE TwitterLoopV2(PublishThread(acc, i, postDate, oks), i + 1,
                                scheduledDates, oks)

\* scheduleTwitterThreads (second revision).
ScheduleTwitterThreadsV2(threads, scheduledDates, oks, log) ==
    IF Len(scheduledDates) = 0 THEN Loop(<<>>, threads, log)
    ELSE TwitterLoopV2(Loop(<<>>, threads, log), 1, scheduledDates, oks)

\* The result of scheduling a campaign's content: the records, the content
\* with its items marked, and the requests received.
Scheduling(li, tw) ==
    [scheduledPosts |-> li.scheduled \o tw.scheduled,
     content |-> [linkedInPosts |-> li.items, twitterThreads |-> tw.items],
     log |-> tw.log]

\* The body of SchedulerAgent (first revision) between the two status updates:
\* the posts, then the threads, all on the publish date.
ScheduleAll(content, publishDate, oks) ==
    LET li == IF Len(content.linkedInPosts) > 0
              THEN ScheduleLinkedInPosts(content.linkedInPosts, publishDate, oks, <<>>)
              ELSE Loop(<<>>, content.linkedInPosts, <<>>)
        tw == IF Len(content.twitterThreads) > 0
              THEN ScheduleTwitterThreads(content.twitterThreads, publishDate, oks, li.log)
              ELSE Loop(<<>>, content.twitterThreads, li.log)
    IN  Scheduling(li, tw)

\* scheduleContent (second revision): one day counter over the posts, then the
\* threads; the dates are fixed before any request.
ScheduleContent(content, scheduledDate, oks) ==
    LET m == Len(content.linkedInPosts)
        n == Len(content.twitterThreads)
        linkedInDates == [i \in 1..m |-> IncrementDateByDays(scheduledDate, i - 1)]
        twitterDates  == [i \in 1..n |-> IncrementDateByDays(scheduledDate, m + i - 1)]
        li == IF m > 0
              THEN ScheduleLinkedInPostsV2(content.linkedInPosts, linkedInDates, oks, <<>>)
              ELSE Loop(<<>>, content.linkedInPosts, <<>>)
        tw == IF n > 0
              THEN ScheduleTwitterThreadsV2(content.twitterThreads, twitterDates, oks, li.log)
              ELSE Loop(<<>>, content.twitterThreads, li.log)
    IN  Scheduling(li, tw)

\* SchedulerAgent with the update to "scheduling" made before the checks of
\* the content and of the credential.
SchedulerEntryEager(st, data, apiKey, v2, now, fGet, fUpd) ==
    IF IsBlankId(data.campaignId)
    THEN [done |-> TRUE, st |-> st, campaign |-> None, date |-> None,
          resp |-> Json(ErrorBody("Campaign ID is required"))]
    ELSE LET campaign == GetCampaign(st, data.campaignId, fGet)
         IN  IF campaign = None
             THEN [done |-> TRUE, st |-> st, campaign |-> None, date |-> None,
                   resp |-> Json(ErrorBody("Campaign not found"))]
             ELSE LET updated == UpdateCampaignStatus(st, campaign[1].id, "scheduling",
                                                      now, fUpd).st
                  IN  IF campaign[1].content = None
                      THEN [done |-> TRUE, st |-> updated, campaign |-> None,
                            date |-> None,
                            resp |-> Json(ErrorBody("Campaign has no content to schedule"))]
                      ELSE IF ~apiKey
                      THEN [done |-> TRUE, st |-> updated, campaign |-> None,
                            date |-> None,
                            resp |-> Json(ErrorBody("Missing TYPEFULLY_API_KEY"))]
                      ELSE [done |-> FALSE, st |-> updated, campaign |-> campaign,
                            date |-> IF v2 THEN Some(GetValidDate(data.publishDate, now))
                                     ELSE CalculateSchedulingDate(data.publishDate, now),
                            resp |-> NoResponse]

\* SchedulerAgent up to and including the update to "scheduling" and the
\* choice of the scheduling date.  v2 selects the second revision.
SchedulerEntry(st, data, apiKey, v2, now, fGet, fUpd) ==
    IF IsBlankId(data.campaignId)
    THEN [done |-> TRUE, st |-> st, campaign |-> None, date |-> None,
          resp |-> Json(ErrorBody("Campaign ID is required"))]
    ELSE LET campaign == GetCampaign(st, data.campaignId, fGet)
         IN  IF campaign = None
             THEN [done |-> TRUE, st |-> st, campaign |-> None, date |-> None,
                   resp |-> Json(ErrorBody("Campaign not found"))]
             ELSE IF campaign[1].content = None
             THEN [done |-> TRUE, st |-> st, campaign |-> None, date |-> None,
                   resp |-> Json(ErrorBody("Campaign has no content to schedule"))]
             ELSE IF ~apiKey
             THEN [done |-> TRUE, st |-> st, campaign |-> None, date |-> None,
                   resp |-> Json(ErrorBody("Missing TYPEFULLY_API_KEY"))]
             ELSE [done |-> FALSE,
                   st |-> UpdateCampaignStatus(st, campaign[1].id, "scheduling",
                                               now, fUpd).st,
                   campaign |-> campaign,
                   date |-> IF v2 THEN Some(GetValidDate(data.publishDate, now))
                            ELSE CalculateSchedulingDate(data.publishDate, now),
                   resp |-> NoResponse]

\* SchedulerAgent from the scheduling of the content to the save of the
\* campaign read at entry, with its schedulingInfo attached.
SchedulerAttach(st, campaign, date, v2, oks, now, f) ==
    LET result  == IF v2 THEN ScheduleContent(campaign.content[1], date[1], oks)
                   ELSE ScheduleAll(campaign.content[1], date, oks)
        updated == [campaign EXCEPT
                        !.content = Some(result.content),
                        !.schedulingInfo = Some([scheduledPosts |-> result.scheduledPosts]),
                        !.updatedAt = now]
        saved   == SaveCampaign(st, updated, f)
    IN  [st |-> saved.st, ok |-> saved.ok, campaign |-> updated, log |-> result.log]

\* The scheduling summary returned to the caller.
SuccessBody(campaignId, n) ==
    [status |-> "success", campaignId |-> campaignId, scheduledPosts |-> n]

\* SchedulerAgent from the save on, without the update to "active".
SchedulerFinishNoUpdate(st, campaign, now, f) ==
    [st |-> st,
     resp |-> Json(SuccessBody(campaign.id,
                               Len(campaign.schedulingInfo[1].scheduledPosts)))]

\* SchedulerAgent that hands the campaign back to the copywriter.
SchedulerFinishHandingBack(st, campaign, now, f) ==
    [st |-> UpdateCampaignStatus(st, campaign.id, "active", now, f).st,
     resp |-> Handoff("copywriter",
                      Payload(campaign.id, <<>>, <<>>, campaign.publishDate, <<>>,
                              None))]

\* SchedulerAgent from the update to "active" on.
SchedulerFinish(st, campaign, now, f) ==
    [st |-> UpdateCampaignStatus(st, campaign.id, "active", now, f).st,
     resp |-> Json(SuccessBody(campaign.id,
                               Len(campaign.schedulingInfo[1].scheduledPosts)))]

(***************************************************************************)
(* The environment of a specification: the inputs its actions draw.        *)
(***************************************************************************)
\* requests: the intake requests; extractions: what the extraction model
\* returns (None = it fails); payloads: the payloads of requests sent to a
\* stage directly; extract, analyze: whether the page extraction and the
\* analysis model succeed; posts, threads: what the generation model returns
\* (None = it fails); keys: whether the publishing credential is set;
\* publish: whether a publish request succeeds; faulty: whether kv calls may
\* throw; ticks, stageTicks: by how much the clock may have advanced at an
\* intake, at a stage step; rerun: whether a request arrives after the first
\* run ("never"), once no handoff is pending ("ended"), or whenever no stage
\* is in flight ("any").

\* The pipeline, stage by stage: one topic, with and without a source, a
\* failing analysis, the local fallback content, a missing credential, store
\* faults, repeated runs, and stages invoked directly with no campaign id or
\* one the store lacks.  Publish requests succeed here; SchedulerEnv draws
\* their failures.
PipelineEnv ==
    [requests    |-> {Request(t, <<>>, None, d) : t \in {<<>>, <<"C">>}, d \in Domains},
     extractions |-> {None},
     payloads    |-> {Payload(id, <<"d">>, <<>>, None, <<"u">>, None) :
                         id \in {BlankId, CampaignId(0)}},
     extract     |-> {TRUE},
     analyze     |-> BOOLEAN,
     posts       |-> {None},
     threads     |-> {None},
     keys        |-> BOOLEAN,
     publish     |-> {TRUE},
     faulty      |-> TRUE,
     ticks       |-> {0, 1},
     stageTicks  |-> {0},
     rerun       |-> "ended"]

\* The scheduler: one request per publish date, every generated content,
\* every publish outcome, no store fault, one run.
SchedulerEnv ==
    [requests    |-> {Request(<<"C">>, <<"d">>, pd, <<>>) : pd \in PublishDates},
     extractions |-> {None},
     payloads    |-> {},
     extract     |-> {TRUE},
     analyze     |-> {TRUE},
     posts       |-> Opt(GeneratedPosts),
     threads     |-> Opt(GeneratedThreads),
     keys        |-> {TRUE},
     publish     |-> BOOLEAN,
     faulty      |-> FALSE,
     ticks       |-> {0},
     stageTicks  |-> {0},
     rerun       |-> "never"]

\* Scheduling under store faults: an intake without a source, with and without
\* a publish date, the local
\* fallback content (one Post, one Thread), publish requests that succeed or
\* fail, the credential present, and kv calls that may throw.
FaultyEnv ==
    [requests    |-> {Request(<<"C">>, <<>>, pd, <<>>) :
                         pd \in {None, Some(DateString(TRUE, FutureDay))}},
     extractions |-> {None},
     payloads    |-> {},
     extract     |-> {TRUE},
     analyze     |-> {TRUE},
     posts       |-> {None},
     threads     |-> {None},
     keys        |-> {TRUE},
     publish     |-> BOOLEAN,
     faulty      |-> TRUE,
     ticks       |-> {0},
     stageTicks  |-> {0},
     rerun       |-> "never"]

\* Stages invoked directly on a store that intake has filled: with no
\* campaign id, with an id the store lacks, and with the id of the stored
\* campaign, whatever it holds; with and without the credential; no kv call
\* throws.
DirectEnv ==
    [requests    |-> {Request(t, <<>>, None, d) : t \in {<<>>, <<" ">>, <<"C">>},
                                                  d \in Domains},
     extractions |-> {None},
     payloads    |-> {Payload(id, <<"d">>, <<>>, None, <<"u">>, None) :
                         id \in {BlankId, CampaignId(0), CampaignId(1)}},
     extract     |-> {TRUE},
     analyze     |-> {TRUE},
     posts       |-> {None},
     threads     |-> {None},
     keys        |-> BOOLEAN,
     publish     |-> {TRUE},
     faulty      |-> FALSE,
     ticks       |-> {0},
     stageTicks  |-> {0},
     rerun       |-> "any"]

\* Research and copywriting with collaborators that fail: an intake with and
\* without a source, an extraction and an analysis that succeed or fail,
\* generations that fail or return any posts and threads, and kv calls that
\* may throw.
CollaboratorEnv ==
    [requests    |-> {Request(<<"C">>, <<>>, None, d) : d \in Domains},
     extractions |-> {None},
     payloads    |-> {},
     extract     |-> BOOLEAN,
     analyze     |-> BOOLEAN,
     posts       |-> Opt(GeneratedPosts),
     threads     |-> Opt(GeneratedThreads),
     keys        |-> {TRUE},
     publish     |-> {TRUE},
     faulty      |-> TRUE,
     ticks       |-> {0},
     stageTicks  |-> {0},
     rerun       |-> "never"]

\* The topics of intake requests: none, a topic, the same topic up to case
\* and surrounding blanks, a topic that contains it, and another topic.
IntakeTopics == {<<>>, <<"C">>, <<" ", "c">>, <<"C", "d">>, <<"d">>}

\* Intake alone: every topic, with and without a source, a succeeding and a
\* failing extraction, no store fault, repeated intakes.
IntakeEnv ==
    [requests    |-> {Request(t, <<>>, None, d) : t \in IntakeTopics, d \in Domains},
     extractions |-> {None, Some([topic |-> <<"d">>, description |-> <<>>,
                                  publishDate |-> None, domain |-> <<"u">>])},
     payloads    |-> {},
     extract     |-> {TRUE},
     analyze     |-> {TRUE},
     posts       |-> {None},
     threads     |-> {None},
     keys        |-> {TRUE},
     publish     |-> {TRUE},
     faulty      |-> FALSE,
     ticks       |-> {0, 1},
     stageTicks  |-> {0},
     rerun       |-> "any"]

(***************************************************************************)
(* The state machine.                                                      *)
(***************************************************************************)
Init ==
    /\ campaigns = <<>>
    /\ campaignsIndex = <<>>
    /\ clock = 1
    /\ faults = 0
    /\ pc = "idle"
    /\ local = NoLocal
    /\ resp = NoResponse
    /\ requests = <<>>
    /\ run = NoRun
    /\ saves = EmptyBag
    /\ found = None
    /\ inflight = [p \in Invocations |-> NoCall]

\* The store as the repository operations see it.
TheStore == Store(campaigns, campaignsIndex)

\* The readings Date.now() can give at an intake, at a stage step.
Now(E) == {t \in {clock + d : d \in E.ticks} : t <= MaxClock}

StageNow(E) == {t \in {clock + d : d \in E.stageTicks} : t <= MaxClock}

\* Outcomes of the kv calls of getCampaign, saveCampaign, updateCampaignStatus
\* and findCampaignsByTopic with at most one call that throws.
GetOutcomes == {[NoFault EXCEPT !.get = FALSE]}

SaveOutcomes ==
    {[NoFault EXCEPT !.set = FALSE], [NoFault EXCEPT !.idxGet = FALSE],
     [NoFault EXCEPT !.idxSet = FALSE]}

UpdateOutcomes == GetOutcomes \cup SaveOutcomes

FindOutcomes == {[NoFault EXCEPT !.idxGet = FALSE], [NoFault EXCEPT !.get = FALSE]}

\* The kv outcomes of a step of two repository operations: no call throws, or
\* (in a faulty environment) one call of one of them does.
Outcomes(E, S1, S2) ==
    {<<NoFault, NoFault>>}
    \cup (IF E.faulty
          THEN {<<f, NoFault>> : f \in S1} \cup {<<NoFault, f>> : f \in S2}
          ELSE {})

\* The kv calls of a step may throw while the fault budget lasts.
Inject(f) ==
    /\ faults + FaultCount(f[1]) + FaultCount(f[2]) <= MaxFaults
    /\ faults' = faults + FaultCount(f[1]) + FaultCount(f[2])

\* The handoff the platform delivers next, if any.
Pending(name) ==
    /\ pc = "idle"
    /\ Len(resp.handoff) > 0
    /\ resp.handoff[1].name = name

\* The store after a step.
Write(st) ==
    /\ campaigns' = st.campaigns
    /\ campaignsIndex' = st.index

\* A stage invocation ends with the calls it made on its AgentResponse.
Return(r) ==
    /\ pc' = "idle"
    /\ local' = NoLocal
    /\ resp' = r

\* The run history after a step of the stage named stage (or of the stage in
\* flight, when stage is ""), with kv outcomes f.
Record(r, stage, st, f, ok) ==
    LogWrite([r EXCEPT !.path = IF stage = "" THEN @ ELSE Append(@, stage),
                       !.clean = @ /\ ok /\ FaultCount(f[1]) + FaultCount(f[2]) = 0],
             TheStore, st)

\* The run an intake invocation starts.
NewRun(result) ==
    [NoRun EXCEPT
        !.intake = TRUE,
        !.request = result.request,
        !.campaignId = IF Len(result.resp.handoff) > 0
                       THEN result.resp.handoff[1].data.campaignId ELSE BlankId,
        !.source = Len(result.resp.handoff) > 0
                   /\ result.resp.handoff[1].data.source # <<>>]

\* A request may arrive when no stage is in flight.
Idle(E) ==
    /\ pc = "idle"
    /\ E.rerun = "any" \/ Len(resp.handoff) = 0
    /\ E.rerun # "never" \/ run = NoRun

\* The payloads the stage named name may be invoked with: the pending handoff
\* to it, or a request sent to it directly: before any run, or (with rerun
\* "any") whenever no stage is in flight.
Delivered(E, name) ==
    IF Pending(name) THEN {resp.handoff[1].data}
    ELSE IF pc = "idle" /\ (run = NoRun \/ E.rerun = "any") THEN E.payloads ELSE {}

\* The run a stage invocation belongs to: the one whose handoff it received,
\* or none when the stage was invoked directly.
RunOf(name, data) ==
    IF Pending(name) THEN run ELSE [NoRun EXCEPT !.campaignId = data.campaignId]

\* Intake: one invocation of ManagerAgent (first revision).
ManagerAgent(E) ==
    /\ Idle(E)
    /\ \E req \in E.requests, ext \in E.extractions, now \in Now(E),
          f \in Outcomes(E, FindOutcomes, SaveOutcomes) :
          LET result == ManagerResult(TheStore, req, ext, now, f[1], f[2])
          IN  /\ Inject(f)
              /\ clock' = now
              /\ Write(result.st)
              /\ Return(result.resp)
              /\ run' = Record(NewRun(result), "manager", result.st, f, TRUE)
    /\ UNCHANGED <<requests, saves, found, inflight>>

\* Intake: one invocation of ManagerAgent (second revision).
ManagerAgentV2(E) ==
    /\ Idle(E)
    /\ \E req \in E.requests, ext \in E.extractions, now \in Now(E),
          f \in Outcomes(E, FindOutcomes, SaveOutcomes) :
          LET result == ManagerResultV2(TheStore, req, ext, now, f[1], f[2])
          IN  /\ Inject(f)
              /\ clock' = now
              /\ Write(result.st)
              /\ Return(result.resp)
              /\ run' = Record(NewRun(result), "manager", result.st, f, TRUE)
    /\ UNCHANGED <<requests, saves, found, inflight>>

\* A stage entry: a terminal response, or the stage goes on at `next` with the
\* campaign it read.
Enter(entry, data, next) ==
    /\ Write(entry.st)
    /\ IF entry.done THEN Return(entry.resp)
       ELSE /\ pc' = next
            /\ local' = [campaign |-> entry.campaign, data |-> data, date |-> None]
            /\ resp' = NoResponse

\* Research, first step: the handoff is delivered to ResearcherAgent.
ResearcherAgent(E) ==
    /\ \E data \in Delivered(E, "researcher"), now \in StageNow(E),
          f \in Outcomes(E, GetOutcomes, UpdateOutcomes) :
          LET entry == ResearcherEntry(TheStore, data, now, f[1], f[2])
          IN  /\ Inject(f)
              /\ clock' = now
              /\ Enter(entry, data, "researcher_attach")
              /\ run' = Record(RunOf("researcher", data), "researcher", entry.st, f, TRUE)
    /\ UNCHANGED <<requests, saves, found, inflight>>

\* Research, second step: research, save, hand off.
ResearcherAgentAttach(E) ==
    /\ pc = "researcher_attach"
    /\ \E now \in StageNow(E), f \in Outcomes(E, SaveOutcomes, {}),
          extractOK \in E.extract, analyzeOK \in E.analyze :
          LET result == ResearcherAttach(TheStore, local.campaign[1], local.data,
                                         extractOK, analyzeOK, now, f[1])
          IN  /\ Inject(f)
              /\ clock' = now
              /\ Write(result.st)
              /\ Return(result.resp)
              /\ run' = Record(run, "", result.st, f, TRUE)
    /\ UNCHANGED <<requests, saves, found, inflight>>

\* Copywriting, first step: the handoff is delivered to CopywriterAgent.
CopywriterAgent(E) ==
    /\ \E data \in Delivered(E, "copywriter"), now \in StageNow(E),
          f \in Outcomes(E, GetOutcomes, UpdateOutcomes) :
          LET entry == CopywriterEntry(TheStore, data, now, f[1], f[2])
          IN  /\ Inject(f)
              /\ clock' = now
              /\ Enter(entry, data, "copywriter_attach")
              /\ run' = Record(RunOf("copywriter", data), "copywriter", entry.st, f, TRUE)
    /\ UNCHANGED <<requests, saves, found, inflight>>

\* Copywriting, second step: generate, save, hand off.
CopywriterAgentAttach(E) ==
    /\ pc = "copywriter_attach"
    /\ \E now \in StageNow(E), f \in Outcomes(E, SaveOutcomes, {}),
          genPosts \in E.posts, genThreads \in E.threads :
          LET result == CopywriterAttach(TheStore, local.campaign[1], local.data,
                                         genPosts, genThreads, now, f[1])
          IN  /\ Inject(f)
              /\ clock' = now
              /\ Write(result.st)
              /\ Return(result.resp)
              /\ run' = Record(run, "", result.st, f, TRUE)
    /\ UNCHANGED <<requests, saves, found, inflight>>

\* Scheduling, first step, of the revision v2 selects.
SchedulerBegin(E, v2) ==
    /\ \E data \in Delivered(E, "scheduler"), now \in StageNow(E),
          f \in Outcomes(E, GetOutcomes, UpdateOutcomes), apiKey \in E.keys :
          LET entry == SchedulerEntry(TheStore, data, apiKey, v2, now, f[1], f[2])
          IN  /\ Inject(f)
              /\ clock' = now
              /\ Write(entry.st)
              /\ IF entry.done THEN Return(entry.resp)
                 ELSE /\ pc' = IF v2 THEN "scheduler_attach_v2" ELSE "scheduler_attach"
                      /\ local' = [campaign |-> entry.campaign, data |-> data,
                                   date |-> entry.date]
                      /\ resp' = NoResponse
              /\ requests' = <<>>
              /\ run' = Record(RunOf("scheduler", data), "scheduler", entry.st, f, apiKey)
    /\ UNCHANGED <<saves, found, inflight>>

\* Scheduling, first step: the handoff is delivered to SchedulerAgent (first
\* revision).
SchedulerAgent(E) == SchedulerBegin(E, FALSE)

\* Scheduling, first step: the handoff is delivered to SchedulerAgent (second
\* revision).
SchedulerAgentV2(E) == SchedulerBegin(E, TRUE)

\* The publish outcomes of one scheduler invocation: whether the k-th request
\* the API receives succeeds.
PublishOutcomes(E, content) ==
    [1..(Len(content.linkedInPosts) + Len(content.twitterThreads)) -> E.publish]

\* Scheduling, second step (first revision): publish every group, save; the
\* result of the save is ignored.
SchedulerAgentAttach(E) ==
    /\ pc = "scheduler_attach"
    /\ \E now \in StageNow(E), f \in Outcomes(E, SaveOutcomes, {}),
          oks \in PublishOutcomes(E, local.campaign[1].content[1]) :
          LET result == SchedulerAttach(TheStore, local.campaign[1], local.date,
                                        FALSE, oks, now, f[1])
          IN  /\ Inject(f)
              /\ clock' = now
              /\ Write(result.st)
              /\ requests' = result.log
              /\ pc' = "scheduler_finish"
              /\ local' = [local EXCEPT !.campaign = Some(result.campaign)]
              /\ run' = Record(run, "", result.st, f, TRUE)
    /\ UNCHANGED <<resp, saves, found, inflight>>

\* Scheduling, second step (second revision): publish every group, save; a
\* failed save is a terminal error.
SchedulerAgentAttachV2(E) ==
    /\ pc = "scheduler_attach_v2"
    /\ \E now \in StageNow(E), f \in Outcomes(E, SaveOutcomes, {}),
          oks \in PublishOutcomes(E, local.campaign[1].content[1]) :
          LET result == SchedulerAttach(TheStore, local.campaign[1], local.date,
                                        TRUE, oks, now, f[1])
          IN  /\ Inject(f)
              /\ clock' = now
              /\ Write(result.st)
              /\ requests' = result.log
              /\ IF result.ok
                 THEN /\ pc' = "scheduler_finish"
                      /\ local' = [local EXCEPT !.campaign = Some(result.campaign)]
                      /\ resp' = resp
                 ELSE Return(Json(ErrorBody("Failed to save campaign with scheduling info")))
              /\ run' = Record(run, "", result.st, f, TRUE)
    /\ UNCHANGED <<saves, found, inflight>>

\* Scheduling, last step: the update to "active" and the summary.
SchedulerAgentFinish(E) ==
    /\ pc = "scheduler_finish"
    /\ \E now \in StageNow(E), f \in Outcomes(E, UpdateOutcomes, {}) :
          LET result == SchedulerFinish(TheStore, local.campaign[1], now, f[1])
          IN  /\ Inject(f)
              /\ clock' = now
              /\ Write(result.st)
              /\ Return(result.resp)
              /\ run' = Record(run, "", result.st, f, TRUE)
    /\ UNCHANGED <<requests, saves, found, inflight>>

\* The stages after intake, in environment E.
Stages(E) ==
    \/ ResearcherAgent(E)
    \/ ResearcherAgentAttach(E)
    \/ CopywriterAgent(E)
    \/ CopywriterAgentAttach(E)
    \/ SchedulerAgent(E)
    \/ SchedulerAgentV2(E)
    \/ SchedulerAgentAttach(E)
    \/ SchedulerAgentAttachV2(E)
    \/ SchedulerAgentFinish(E)

Next ==
    \/ ManagerAgent(PipelineEnv)
    \/ ManagerAgentV2(PipelineEnv)
    \/ Stages(PipelineEnv)

Spec == Init /\ [][Next]_vars

\* The scheduling of the content goes on: SchedulerAgentAttach and
\* SchedulerAgentAttachV2 have no guard but their position.
SchedulingGoesOn ==
    /\ pc \in {"scheduler_attach", "scheduler_attach_v2"}
    /\ pc' \in {"scheduler_finish", "idle"}

\* The pipeline on a platform that delivers every handoff and whose awaited
\* calls all return or throw: a stage that can take a step takes one.
SpecFair ==
    /\ Spec
    /\ WF_vars(\/ ResearcherAgent(PipelineEnv)
               \/ ResearcherAgentAttach(PipelineEnv)
               \/ CopywriterAgent(PipelineEnv)
               \/ CopywriterAgentAttach(PipelineEnv)
               \/ SchedulerAgent(PipelineEnv)
               \/ SchedulerAgentV2(PipelineEnv)
               \/ SchedulerAgentFinish(PipelineEnv))
    /\ WF_pc(SchedulingGoesOn)

NextScheduler ==
    \/ ManagerAgent(SchedulerEnv)
    \/ CopywriterAgent(SchedulerEnv)
    \/ CopywriterAgentAttach(SchedulerEnv)
    \/ SchedulerAgent(SchedulerEnv)
    \/ SchedulerAgentV2(SchedulerEnv)
    \/ SchedulerAgentAttach(SchedulerEnv)
    \/ SchedulerAgentAttachV2(SchedulerEnv)
    \/ SchedulerAgentFinish(SchedulerEnv)

SpecScheduler == Init /\ [][NextScheduler]_vars

NextFaulty ==
    \/ ManagerAgent(FaultyEnv)
    \/ CopywriterAgent(FaultyEnv)
    \/ CopywriterAgentAttach(FaultyEnv)
    \/ SchedulerAgent(FaultyEnv)
    \/ SchedulerAgentV2(FaultyEnv)
    \/ SchedulerAgentAttach(FaultyEnv)
    \/ SchedulerAgentAttachV2(FaultyEnv)
    \/ SchedulerAgentFinish(FaultyEnv)

SpecFaulty == Init /\ [][NextFaulty]_vars

NextDirect ==
    \/ ManagerAgent(DirectEnv)
    \/ ManagerAgentV2(DirectEnv)
    \/ Stages(DirectEnv)

SpecDirect == Init /\ [][NextDirect]_vars

NextCollaborator ==
    \/ ManagerAgent(CollaboratorEnv)
    \/ ManagerAgentV2(CollaboratorEnv)
    \/ ResearcherAgent(CollaboratorEnv)
    \/ ResearcherAgentAttach(CollaboratorEnv)
    \/ CopywriterAgent(CollaboratorEnv)
    \/ CopywriterAgentAttach(CollaboratorEnv)

SpecCollaborator == Init /\ [][NextCollaborator]_vars

NextIntake ==
    \/ ManagerAgent(IntakeEnv)
    \/ ManagerAgentV2(IntakeEnv)

SpecIntake == Init /\ [][NextIntake]_vars

(***************************************************************************)
(* The repository on its own: saves, lists and topic searches, one at a    *)
(* time, with no kv call failing.                                          *)
(***************************************************************************)
\* What a list() or a findByTopic(query) returned, with what list() returns
\* in the same state.
Found(query, result, listed) ==
    [query |-> query, result |-> result, listed |-> listed]

\* save(campaign): a campaign under any id, new or saved before.
Save ==
    /\ BagCardinality(saves) < MaxSaves
    /\ \E id \in Ids, topic \in Topics :
          /\ Write(SaveCampaign(TheStore,
                                [NewCampaign(topic, <<>>, None, clock) EXCEPT !.id = id],
                                NoFault).st)
          /\ saves' = saves (+) SetToBag({id})
    /\ found' = None
    /\ UNCHANGED <<clock, faults, pc, local, resp, requests, run, inflight>>

\* list()
List ==
    /\ LET listed == ListCampaigns(TheStore, NoFault)
       IN  found' = Some(Found(None, listed, listed))
    /\ UNCHANGED <<campaigns, campaignsIndex, clock, faults, pc, local, resp,
                   requests, run, inflight, saves>>

\* findByTopic(query)
FindByTopic ==
    /\ \E query \in Queries :
          found' = Some(Found(Some(query),
                              FindCampaignsByTopic(TheStore, query, NoFault),
                              ListCampaigns(TheStore, NoFault)))
    /\ UNCHANGED <<campaigns, campaignsIndex, clock, faults, pc, local, resp,
                   requests, run, inflight, saves>>

NextRepo ==
    \/ Save
    \/ List
    \/ FindByTopic

SpecRepo == Init /\ [][NextRepo]_vars

(***************************************************************************)
(* The repository on its own: creates, reads by id and lists, one at a     *)
(* time, with kv calls that may throw during a create.                     *)
(***************************************************************************)
\* The topics create() is called with: none, a blank one, a topic, and a
\* topic with a leading blank.
CreateTopics == {<<>>, <<" ">>, <<"C">>, <<" ", "c">>}

\* What a create(topic) did: the kv outcomes it met, whether it returned
\* (ok) or threw, and the campaign it returned.
Created(topic, f, ok, campaign) ==
    [topic |-> topic, f |-> f, ok |-> ok, campaign |-> campaign]

\* What a get(id) returned.
Got(id, result) == [id |-> id, result |-> result]

\* create(topic): the id is taken from the clock, which may not have advanced
\* since the last create.
Create ==
    /\ BagCardinality(saves) < MaxSaves
    /\ \E topic \in CreateTopics, now \in Now([ticks |-> {0, 1}]),
          f \in {NoFault} \cup SaveOutcomes :
          LET result == CreateCampaign(TheStore, topic, <<>>, None, now, f)
          IN  /\ faults + FaultCount(f) <= MaxFaults
              /\ faults' = faults + FaultCount(f)
              /\ clock' = now
              /\ Write(result.st)
              /\ found' = Some(Created(topic, f, result.ok, result.campaign))
              /\ saves' = IF result.ok
                          THEN saves (+) SetToBag({result.campaign[1].id})
                          ELSE saves
    /\ UNCHANGED <<pc, local, resp, requests, run, inflight>>

\* get(id), with an id the store may hold, an id it lacks, or none.
Get ==
    /\ \E id \in Ids \cup {BlankId, CampaignId(0)} :
          found' = Some(Got(id, GetCampaign(TheStore, id, NoFault)))
    /\ UNCHANGED <<campaigns, campaignsIndex, clock, faults, pc, local, resp,
                   requests, run, inflight, saves>>

NextCreate ==
    \/ Create
    \/ Get
    \/ List

SpecCreate == Init /\ [][NextCreate]_vars

(***************************************************************************)
(* The repository on its own: saves of campaigns with and without an       *)
(* attachment, reads by id, status updates and lists, one at a time, with  *)
(* kv calls that may throw.                                                *)
(***************************************************************************)
\* The ids the operations are called with: two ids a campaign may be stored
\* under, an id the store never holds, and none.
StoreIds == {CampaignId(1), CampaignId(2)}

CallIds == StoreIds \cup {CampaignId(0), BlankId}

\* The campaigns save() is called with under id: a new campaign, with or
\* without research attached.
StoreCampaigns(id) ==
    {[NewCampaign(<<"C">>, <<"d">>, None, 1) EXCEPT !.id = id, !.research = r] :
        r \in {None, Some(CreateFallbackResearch(<<"C">>, <<"d">>, <<"u">>))}}

\* What an updateStatus(id, status) returned.
Updated(id, status, result) ==
    [campaignId |-> id, status |-> status, updated |-> result]

\* A kv call of the operation may throw while the fault budget lasts.
Faulted(f) ==
    /\ faults + FaultCount(f) <= MaxFaults
    /\ faults' = faults + FaultCount(f)

\* What a save(campaign) was given and what it returned.
Saved(campaign, returned) == [saving |-> campaign, returned |-> returned]

\* save(campaign), with the id of a campaign or none
Put ==
    /\ BagCardinality(saves) < MaxSaves
    /\ \E id \in StoreIds \cup {BlankId}, f \in {NoFault} \cup SaveOutcomes :
          \E campaign \in StoreCampaigns(id) :
             LET saved == SaveCampaign(TheStore, campaign, f)
             IN  /\ Faulted(f)
                 /\ Write(saved.st)
                 /\ saves' = IF saved.ok THEN saves (+) SetToBag({id}) ELSE saves
                 /\ found' = Some(Saved(campaign, saved.ok))
    /\ UNCHANGED <<clock, pc, local, resp, requests, run, inflight>>

\* get(id)
Read ==
    /\ \E id \in CallIds, f \in {NoFault} \cup GetOutcomes :
          /\ Faulted(f)
          /\ found' = Some(Got(id, GetCampaign(TheStore, id, f)))
    /\ UNCHANGED <<campaigns, campaignsIndex, clock, pc, local, resp, requests,
                   run, inflight, saves>>

\* updateStatus(id, status)
UpdateStatus ==
    /\ clock < MaxClock
    /\ \E id \in CallIds, status \in {"writing", "active"},
          f \in {NoFault} \cup UpdateOutcomes :
          LET result == UpdateCampaignStatus(TheStore, id, status, clock + 1, f)
          IN  /\ Faulted(f)
              /\ clock' = clock + 1
              /\ Write(result.st)
              /\ found' = Some(Updated(id, status, result.campaign))
    /\ UNCHANGED <<pc, local, resp, requests, run, inflight, saves>>

\* The result of a list() during which the reads of the ids in failing threw.
ListedBut(failing, answer) == [failing |-> failing, answer |-> answer]

\* list() with campaign reads that throw.
ListPart ==
    /\ \E failing \in SUBSET Range(campaignsIndex) :
          /\ failing # {}
          /\ faults + Cardinality(failing) <= MaxFaults
          /\ faults' = faults + Cardinality(failing)
          /\ found' = Some(ListedBut(failing,
                                     GetEach(TheStore,
                                             SelectSeq(campaignsIndex,
                                                       LAMBDA id : ~IsBlankId(id)),
                                             failing)))
    /\ UNCHANGED <<campaigns, campaignsIndex, clock, pc, local, resp, requests,
                   run, inflight, saves>>

NextStore ==
    \/ Put
    \/ Read
    \/ UpdateStatus
    \/ List
    \/ ListPart

SpecStore == Init /\ [][NextStore]_vars

(***************************************************************************)
(* The repository under concurrent invocations: every await of             *)
(* saveCampaign and of a get, modify, save sequence is a step of its own,  *)
(* and the steps of two invocations interleave.                            *)
(***************************************************************************)
\* The campaigns a concurrent save writes.
RaceCampaigns(id) == {[NewCampaign(<<"C">>, <<"d">>, None, 1) EXCEPT !.id = id]}

\* The changes a get, modify, save sequence makes to the campaign it read:
\* the status of updateCampaignStatus, the research of the researcher.
Changes == {"status", "research"}

Change(campaign, change, now) ==
    IF change = "status"
    THEN [campaign EXCEPT !.status = "active", !.updatedAt = now]
    ELSE [campaign EXCEPT
             !.research = Some(CreateFallbackResearch(<<"C">>, <<"d">>, <<"u">>)),
             !.updatedAt = now]

\* The invocations inside a repository operation.
Busy == {p \in Invocations : inflight[p].at \notin {"idle", "done"}}

\* An invocation may begin an operation while the bound on saves lasts.
MayBegin(p) ==
    /\ inflight[p].at \in {"idle", "done"}
    /\ BagCardinality(saves) + Cardinality(Busy) < MaxSaves

\* saveCampaign returns ok with the campaign c in hand.
Ended(p, c, ok) ==
    /\ inflight' = [inflight EXCEPT ![p] = [at |-> "done", campaign |-> c,
                                            campaignIds |-> <<>>, ok |-> ok]]
    /\ saves' = IF ok THEN saves (+) SetToBag({c[1].id}) ELSE saves

\* An invocation calls saveCampaign with a campaign of its own making.
BeginSave(p) ==
    /\ MayBegin(p)
    /\ \E id \in StoreIds : \E campaign \in RaceCampaigns(id) :
          inflight' = [inflight EXCEPT ![p] = [at |-> "write",
                                               campaign |-> Some(campaign),
                                               campaignIds |-> <<>>,
                                               ok |-> FALSE]]
    /\ UNCHANGED <<campaigns, campaignsIndex, clock, faults, pc, local, resp,
                   requests, run, saves, found>>

\* An invocation gets a campaign, changes its copy and calls saveCampaign
\* with it; it ends at once when the get gives null.
BeginModify(p) ==
    /\ MayBegin(p)
    /\ \E id \in StoreIds, change \in Changes, now \in Now([ticks |-> {0, 1}]),
          f \in {NoFault} \cup GetOutcomes :
          LET got == GetCampaign(TheStore, id, f)
          IN  /\ Faulted(f)
              /\ clock' = now
              /\ inflight' =
                    [inflight EXCEPT ![p] =
                        IF got = None
                        THEN [at |-> "done", campaign |-> None,
                              campaignIds |-> <<>>, ok |-> FALSE]
                        ELSE [at |-> "write",
                              campaign |-> Some(Change(got[1], change, now)),
                              campaignIds |-> <<>>, ok |-> FALSE]]
    /\ UNCHANGED <<campaigns, campaignsIndex, pc, local, resp, requests, run,
                   saves, found>>

\* saveCampaign that goes on to the index without writing the campaign.
WriteCampaignSkipped(p) ==
    /\ inflight[p].at = "write"
    /\ inflight' = [inflight EXCEPT ![p].at = "index"]
    /\ UNCHANGED <<campaigns, campaignsIndex, clock, faults, pc, local, resp,
                   requests, run, saves, found>>

\* saveCampaign that writes the stored record with its own changed fields.
WriteCampaignMerged(p) ==
    /\ inflight[p].at = "write"
    /\ LET c  == inflight[p].campaign[1]
           to == IF c.id \in DOMAIN campaigns
                 THEN [campaigns[c.id] EXCEPT
                          !.status = c.status, !.updatedAt = c.updatedAt,
                          !.research = IF c.research # None THEN c.research ELSE @]
                 ELSE Sanitize(c)
       IN  /\ campaigns' = KvSet(campaigns, c.id, to)
           /\ inflight' = [inflight EXCEPT ![p].at = "index"]
    /\ UNCHANGED <<campaignsIndex, clock, faults, pc, local, resp, requests,
                   run, saves, found>>

\* saveCampaign, first await: the sanitized copy is written under its id; a
\* write that throws ends the save with false.
WriteCampaign(p) ==
    /\ inflight[p].at = "write"
    /\ \E f \in {NoFault, [NoFault EXCEPT !.set = FALSE]} :
          /\ Faulted(f)
          /\ IF f.set
             THEN /\ campaigns' = KvSet(campaigns, inflight[p].campaign[1].id,
                                        Sanitize(inflight[p].campaign[1]))
                  /\ inflight' = [inflight EXCEPT ![p].at = "index"]
                  /\ saves' = saves
             ELSE /\ campaigns' = campaigns
                  /\ Ended(p, inflight[p].campaign, FALSE)
    /\ UNCHANGED <<campaignsIndex, clock, pc, local, resp, requests, run, found>>

\* updateCampaignIndex that pushes the id whether or not the index holds it.
ReadIndexAlways(p) ==
    /\ inflight[p].at = "index"
    /\ inflight' = [inflight EXCEPT
                       ![p].at = "push",
                       ![p].campaignIds =
                           Append(SelectSeq(campaignsIndex, LAMBDA id : ~IsBlankId(id)),
                                  inflight[p].campaign[1].id)]
    /\ UNCHANGED <<campaigns, campaignsIndex, clock, faults, pc, local, resp,
                   requests, run, saves, found>>

\* updateCampaignIndex, first await: the index is read and the id pushed on
\* the array read unless it holds the id; a read that throws ends the index
\* update, and the save returns true all the same.
ReadIndex(p) ==
    /\ inflight[p].at = "index"
    /\ \E f \in {NoFault, [NoFault EXCEPT !.idxGet = FALSE]} :
          LET id          == inflight[p].campaign[1].id
              campaignIds == SelectSeq(campaignsIndex, LAMBDA i : ~IsBlankId(i))
          IN  /\ Faulted(f)
              /\ IF f.idxGet /\ id \notin Range(campaignIds)
                 THEN /\ inflight' = [inflight EXCEPT
                                         ![p].at = "push",
                                         ![p].campaignIds = Append(campaignIds, id)]
                      /\ saves' = saves
                 ELSE Ended(p, inflight[p].campaign, TRUE)
    /\ UNCHANGED <<campaigns, campaignsIndex, clock, pc, local, resp, requests,
                   run, found>>

\* updateCampaignIndex that pushes its id on the index as it is at the write.
WriteIndexMerged(p) ==
    /\ inflight[p].at = "push"
    /\ LET id == inflight[p].campaign[1].id
       IN  campaignsIndex' = IF id \in Range(campaignsIndex) THEN campaignsIndex
                             ELSE Append(campaignsIndex, id)
    /\ Ended(p, inflight[p].campaign, TRUE)
    /\ UNCHANGED <<campaigns, clock, faults, pc, local, resp, requests, run,
                   found>>

\* updateCampaignIndex, second await: the array read, with the id pushed, is
\* written back; the save returns true also when the write throws.
WriteIndex(p) ==
    /\ inflight[p].at = "push"
    /\ \E f \in {NoFault, [NoFault EXCEPT !.idxSet = FALSE]} :
          /\ Faulted(f)
          /\ campaignsIndex' = IF f.idxSet THEN inflight[p].campaignIds
                               ELSE campaignsIndex
    /\ Ended(p, inflight[p].campaign, TRUE)
    /\ UNCHANGED <<campaigns, clock, pc, local, resp, requests, run, found>>

NextRace ==
    \/ \E p \in Invocations : BeginSave(p)
    \/ \E p \in Invocations : BeginModify(p)
    \/ \E p \in Invocations : WriteCampaign(p)
    \/ \E p \in Invocations : ReadIndex(p)
    \/ \E p \in Invocations : WriteIndex(p)

SpecRace == Init /\ [][NextRace]_vars


(***************************************************************************)
(* Intake under concurrent invocations: the search for existing campaigns  *)
(* and the creation of the campaign are two steps, and the steps of two    *)
(* invocations interleave; no kv call throws.                              *)
(***************************************************************************)
\* ManagerAgent up to the search: the invocation ends when the search finds a
\* campaign, else it goes on to create one for the trimmed topic it holds.
IntakeFind(p) ==
    /\ inflight[p].at \in {"idle", "done"}
    /\ \E topic \in IntakeTopics \ {<<>>} :
          LET existingCampaigns == FindCampaignsByTopic(TheStore, Trim(topic), NoFault)
          IN  inflight' = [inflight EXCEPT ![p] =
                              [at |-> IF Len(existingCampaigns) > 0 THEN "done"
                                      ELSE "create",
                               campaign |-> Some([topic |-> Trim(topic)]),
                               campaignIds |-> <<>>, ok |-> FALSE]]
    /\ UNCHANGED <<campaigns, campaignsIndex, clock, faults, pc, local, resp,
                   requests, run, saves, found>>

\* ManagerAgent from createCampaign on.
IntakeCreate(p) ==
    /\ inflight[p].at = "create"
    /\ \E now \in Now([ticks |-> {0, 1}]) :
          LET created == CreateCampaign(TheStore, inflight[p].campaign[1].topic,
                                        <<>>, None, now, NoFault)
          IN  /\ clock' = now
              /\ Write(created.st)
              /\ inflight' = [inflight EXCEPT ![p] =
                                  [at |-> "done", campaign |-> created.campaign,
                                   campaignIds |-> <<>>, ok |-> created.ok]]
    /\ UNCHANGED <<faults, pc, local, resp, requests, run, saves, found>>

NextIntakeRace ==
    \/ \E p \in Invocations : IntakeFind(p)
    \/ \E p \in Invocations : IntakeCreate(p)

SpecIntakeRace == Init /\ [][NextIntakeRace]_vars

(***************************************************************************)
(* Properties.                                                             *)
(***************************************************************************)
\* The pipeline order of the statuses.
Rank(status) ==
    CASE status = "planning"    -> 1
      [] status = "researching" -> 2
      [] status = "writing"     -> 3
      [] status = "scheduling"  -> 4
      [] status = "active"      -> 5
      [] OTHER                  -> 0

\* A sequence with each run of equal neighbours reduced to one element.
RECURSIVE Compress(_)
Compress(seq) ==
    IF Len(seq) < 2 THEN seq
    ELSE IF seq[1] = seq[2] THEN Compress(Tail(seq))
    ELSE <<seq[1]>> \o Compress(Tail(seq))

\* A string trimmed and case-folded.
Normalized(str) == Trim(ToLowerCase(str))

\* The ids saved at least once.
SavedIds == BagToSet(saves)

\* The campaign a scheduler invocation has scheduled, between its save and its
\* last status update.
Scheduled == local.campaign[1]

\* C1: within one pipeline run started at intake, every write of the run's
\* campaign leaves the persisted status the same or later in the order
\* planning, researching, writing, scheduling, active.
C1_StatusNeverRegresses ==
    run.intake =>
        \A i \in 1..(Len(run.statuses) - 1) :
            Rank(run.statuses[i]) <= Rank(run.statuses[i + 1])

\* C2: a scheduler invocation that passed its entry checks has recorded exactly
\* one ScheduledPost for each Post and each Thread of the content, whatever
\* their text.
C2_OneRecordPerGroup ==
    pc = "scheduler_finish" =>
        LET records == Scheduled.schedulingInfo[1].scheduledPosts
            ids == [i \in 1..Len(records) |-> records[i].postId]
        IN  ids = [i \in 1..Len(Scheduled.content[1].linkedInPosts) |->
                      PostId("linkedin-post", i - 1)]
                  \o [i \in 1..Len(Scheduled.content[1].twitterThreads) |->
                         PostId("twitter-thread", i - 1)]

\* C3: a scheduler invocation that passed its entry checks has sent each Post
\* and each Thread to the publishing API exactly once, in order, whether or
\* not earlier requests failed.
C3_EachGroupSentOnce ==
    pc = "scheduler_finish" =>
        LET posts   == Scheduled.content[1].linkedInPosts
            threads == Scheduled.content[1].twitterThreads
        IN  /\ Len(requests) = Len(posts) + Len(threads)
            /\ \A i \in 1..Len(posts) :
                  /\ requests[i].platform = "linkedin"
                  /\ requests[i].content = posts[i].content
            /\ \A i \in 1..Len(threads) :
                  /\ requests[Len(posts) + i].platform = "twitter"
                  /\ requests[Len(posts) + i].content = Join(threads[i].tweets)

\* C4: after any sequence of successful saves from the empty store, list()
\* returns exactly one campaign for each distinct saved id.
C4_ListOnePerSavedId ==
    \A r \in Range(found) :
        r.query = None =>
            /\ Len(r.result) = Cardinality(SavedIds)
            /\ {r.result[i].id : i \in 1..Len(r.result)} = SavedIds

C4_Witness ==
    \E r \in Range(found) :
        /\ r.query = None
        /\ Len(r.result) = 2
        /\ \E id \in Ids : CopiesIn(id, saves) = 2

\* C5: findByTopic with a non-blank query that some listed campaign matches
\* exactly (after trimming and case-folding) returns the exact matches, in
\* list order, and no campaign that matches by substring only.
C5_ExactMatchesOnly ==
    \A r \in Range(found) :
        (/\ r.query # None
         /\ ~IsBlank(r.query[1])
         /\ \E i \in 1..Len(r.listed) :
               Normalized(r.listed[i].topic) = Normalized(r.query[1]))
        => r.result = SelectSeq(r.listed,
                                LAMBDA c : Normalized(c.topic) = Normalized(r.query[1]))

C5_Witness ==
    \E r \in Range(found) :
        /\ r.query # None
        /\ Len(r.result) = 1
        /\ Normalized(r.result[1].topic) = Normalized(r.query[1])
        /\ r.result[1].topic # r.query[1]
        /\ \E i \in 1..Len(r.listed) :
              /\ Normalized(r.listed[i].topic) # Normalized(r.query[1])
              /\ Includes(Normalized(r.listed[i].topic), Normalized(r.query[1]))

\* C6: findByTopic with a non-blank query that no listed campaign matches
\* exactly returns the listed campaigns whose trimmed, case-folded topic
\* contains the trimmed, case-folded query, in list order.
C6_PartialMatches ==
    \A r \in Range(found) :
        (/\ r.query # None
         /\ ~IsBlank(r.query[1])
         /\ \A i \in 1..Len(r.listed) :
               Normalized(r.listed[i].topic) # Normalized(r.query[1]))
        => r.result = SelectSeq(r.listed,
                                LAMBDA c : Includes(Normalized(c.topic),
                                                    Normalized(r.query[1])))

C6_Witness ==
    \E r \in Range(found) :
        /\ r.query # None
        /\ Len(r.result) = 1
        /\ Len(r.listed) = 2
        /\ Normalized(r.result[1].topic) # Normalized(r.query[1])
        /\ r.query[1] # Normalized(r.query[1])

\* C7: an intake whose topic matches a stored campaign, with the store
\* answering, returns the terminal response that lists the matches, hands off
\* to no stage, and leaves the campaign store and the index as they were.
C7_MatchIsTerminal ==
    [][(/\ pc' = "idle"
        /\ run'.path = <<"manager">>
        /\ run'.clean
        /\ run'.request # None
        /\ Len(FindCampaignsByTopic(TheStore, run'.request[1].topic, NoFault)) > 0)
       => (/\ resp'.handoff = <<>>
           /\ Len(resp'.json) = 1
           /\ resp'.json[1].status = "existing_found"
           /\ resp'.json[1].existingCampaigns =
                 SerializeCampaigns(FindCampaignsByTopic(TheStore,
                                                         run'.request[1].topic,
                                                         NoFault))
           /\ campaigns' = campaigns
           /\ campaignsIndex' = campaignsIndex)]_vars

C7_Witness ==
    /\ pc = "idle"
    /\ run.path = <<"manager">>
    /\ run.clean
    /\ Len(resp.json) = 1
    /\ resp.json[1].status = "existing_found"
    /\ resp.json[1].existingCampaigns[1].topic # run.request[1].topic

\* C8: an intake that created a campaign hands off to research when its
\* request has a source and to copywriting when it has none.
C8_HandoffBySource ==
    (/\ pc = "idle"
     /\ run.path = <<"manager">>
     /\ Len(resp.handoff) = 1)
    => resp.handoff[1].name =
          IF run.request[1].domain # <<>> THEN "researcher" ELSE "copywriter"

\* C9: every stage invocation that has ended made exactly one call on its
\* response, a handoff or a terminal response, and a stage still in flight
\* has made none.
C9_ExactlyOneOutcome ==
    /\ (pc = "idle" /\ run.path # <<>>) => Len(resp.json) + Len(resp.handoff) = 1
    /\ pc # "idle" => Len(resp.json) + Len(resp.handoff) = 0

C9_Witness ==
    /\ pc = "idle"
    /\ run.path = <<"manager", "researcher", "copywriter", "scheduler">>
    /\ Len(resp.json) = 1
    /\ resp.handoff = <<>>

\* C10: a run with a source, no failing store call and the credential present,
\* that ended with the scheduling summary, persisted the statuses planning,
\* researching, writing, scheduling, active, in that order.
C10_StatusSequence ==
    (/\ pc = "idle"
     /\ run.intake
     /\ run.source
     /\ run.clean
     /\ Len(resp.json) = 1
     /\ resp.json[1].status = "success")
    => Compress(run.statuses)
          = <<"planning", "researching", "writing", "scheduling", "active">>

\* The persisted record of the campaign of the run.
Persisted == campaigns[run.campaignId]

\* A run started at intake has ended in the scheduler with no store call
\* failing and the credential present.
CleanRunEnded ==
    /\ pc = "idle"
    /\ run.intake
    /\ run.clean
    /\ run.request # None
    /\ Len(run.path) > 0
    /\ run.path[Len(run.path)] = "scheduler"

\* C11: a run whose intake request has no source, with no store call failing
\* and the credential present, never persists the status researching, records
\* one ScheduledPost for each Post and each Thread of the content, and ends
\* with the persisted status active.
C11_NoSourceRun ==
    (CleanRunEnded /\ run.request[1].domain = <<>>)
    => /\ \A i \in 1..Len(run.statuses) : run.statuses[i] # "researching"
       /\ Persisted.schedulingInfo # None
       /\ Len(Persisted.schedulingInfo[1].scheduledPosts)
             = Len(Persisted.content[1].linkedInPosts)
               + Len(Persisted.content[1].twitterThreads)
       /\ Persisted.status = "active"

\* The day offset the spec gives the group a record belongs to: the j-th Post
\* has offset j, the j-th Thread the number of Posts plus j.
DayOffset(postId, content) ==
    IF postId[1] = "linkedin-post" THEN postId[2]
    ELSE Len(content.linkedInPosts) + postId[2]

\* C12: a scheduler invocation with base date D has given the record of the
\* j-th Post the date D + j days and the record of the j-th Thread the date
\* D + (m + j) days, m being the number of Posts, so that no two records of
\* the campaign have the same date.
C12_DayOffsets ==
    pc = "scheduler_finish" =>
        LET records == Scheduled.schedulingInfo[1].scheduledPosts
        IN  /\ \A i \in 1..Len(records) :
                  records[i].scheduledDate
                     = local.date[1] + DayOffset(records[i].postId, Scheduled.content[1])
            /\ \A i, j \in 1..Len(records) :
                  i # j => records[i].scheduledDate # records[j].scheduledDate

\* The positions of a scheduler invocation that passed its entry checks.
SchedulerSteps == {"scheduler_attach", "scheduler_attach_v2", "scheduler_finish"}

\* The number of Posts with a text plus the number of Threads with a tweet.
NonEmptyGroups(content) ==
    Len(SelectSeq(content.linkedInPosts, LAMBDA p : p.content # <<>>))
    + Len(SelectSeq(content.twitterThreads, LAMBDA t : Len(t.tweets) > 0))

\* C13: the base date of a scheduler invocation is the supplied publish date
\* when it parses and is later than now, and now + 1 day when it is absent,
\* unparsable or not later than now; with any publish date the invocation
\* goes on to request and record every group that has a text.
C13_BaseDate ==
    pc \in SchedulerSteps =>
        LET publishDate == local.data.publishDate
        IN  /\ local.date
                  = Some(IF /\ publishDate # None
                            /\ publishDate[1].parses
                            /\ publishDate[1].day > clock
                         THEN publishDate[1].day
                         ELSE clock + 1)
            /\ pc = "scheduler_finish" =>
                  /\ Len(requests) >= NonEmptyGroups(Scheduled.content[1])
                  /\ Len(Scheduled.schedulingInfo[1].scheduledPosts)
                        >= NonEmptyGroups(Scheduled.content[1])

\* C14: the k-th record of a scheduler invocation belongs to the k-th publish
\* request; it has the status scheduled and the id the API returned exactly
\* when that request succeeded, and the status failed and an empty id exactly
\* when it failed.
C14_RecordFollowsRequest ==
    pc = "scheduler_finish" =>
        LET records == Scheduled.schedulingInfo[1].scheduledPosts
        IN  /\ Len(records) = Len(requests)
            /\ \A k \in 1..Len(records) :
                  /\ records[k].scheduledDate = requests[k].scheduleDate
                  /\ requests[k].ok <=> (/\ records[k].status = "scheduled"
                                         /\ records[k].typefullyId = DraftId(k))
                  /\ ~requests[k].ok <=> (/\ records[k].status = "failed"
                                          /\ records[k].typefullyId = <<>>)

C14_Witness ==
    /\ pc = "scheduler_finish"
    /\ Len(requests) = 3
    /\ <<requests[1].ok, requests[2].ok, requests[3].ok>> = <<TRUE, FALSE, TRUE>>
    /\ LET records == Scheduled.schedulingInfo[1].scheduledPosts
       IN  /\ Len(records) = 3
           /\ records[1].status = "scheduled" /\ records[1].typefullyId # <<>>
           /\ records[2].status = "failed" /\ records[2].typefullyId = <<>>
           /\ records[3].status = "scheduled" /\ records[3].typefullyId # <<>>

\* The terminal errors of the entry checks of SchedulerAgent.
EntryErrors ==
    {ErrorBody("Campaign ID is required"), ErrorBody("Campaign not found"),
     ErrorBody("Campaign has no content to schedule"),
     ErrorBody("Missing TYPEFULLY_API_KEY")}

\* A scheduler invocation that passed its entry checks has ended.
SchedulerEnded ==
    /\ pc = "idle"
    /\ Len(run.path) > 0
    /\ run.path[Len(run.path)] = "scheduler"
    /\ Len(resp.json) = 1
    /\ resp.json[1] \notin EntryErrors

\* The persisted campaign of the run holds one record for each publish request
\* of the invocation, with the outcome of that request, and the status active.
ScheduleStored ==
    /\ run.campaignId \in DOMAIN campaigns
    /\ Persisted.status = "active"
    /\ Persisted.schedulingInfo # None
    /\ LET records == Persisted.schedulingInfo[1].scheduledPosts
       IN  /\ Len(records) = Len(requests)
           /\ \A k \in 1..Len(records) :
                 records[k].status = IF requests[k].ok THEN "scheduled" ELSE "failed"

Invoked(stage) ==
    /\ pc = "idle"
    /\ Len(run'.path) > 0
    /\ run'.path[Len(run'.path)] = stage

\* The step leaves the campaign store and the index as they were.
StoreUnchanged ==
    /\ campaigns' = campaigns
    /\ campaignsIndex' = campaignsIndex

\* The step ends its invocation with one error response and no handoff.
TerminalError ==
    /\ pc' = "idle"
    /\ resp'.handoff = <<>>
    /\ Len(resp'.json) = 1
    /\ resp'.json[1].status = "error"

\* C16: a scheduler invocation without the publishing credential, or on a
\* stored campaign that has no content, returns a terminal error, issues no
\* publish request and leaves the persisted campaign as it was: the status is
\* not advanced to scheduling and no schedulingInfo is written.
C16_PreflightLeavesStore ==
    [][(/\ Invoked("scheduler")
        /\ \/ ~run'.clean
           \/ /\ run'.campaignId \in DOMAIN campaigns
              /\ campaigns[run'.campaignId].content = None)
       => (/\ TerminalError
           /\ StoreUnchanged
           /\ requests' = <<>>)]_vars

C16_Witness ==
    /\ pc = "idle"
    /\ run.path = <<"scheduler">>
    /\ run.clean
    /\ resp.json = <<ErrorBody("Campaign has no content to schedule")>>
    /\ run.campaignId \in DOMAIN campaigns
    /\ Persisted.status = "planning"
    /\ Persisted.schedulingInfo = None

\* The stages that read their campaign at entry.
CampaignStages == {"researcher", "copywriter", "scheduler"}

\* C17: a research, copywriting or scheduling invocation with a campaign id
\* that the store lacks returns a terminal error, hands off to no stage, goes
\* on to no extraction, generation or publish request, and leaves the
\* campaign store and the index as they were.
C17_AbsentCampaignIsTerminal ==
    [][\A stage \in CampaignStages :
          (/\ Invoked(stage)
           /\ ~IsBlankId(run'.campaignId)
           /\ run'.campaignId \notin DOMAIN campaigns)
          => (/\ TerminalError
              /\ StoreUnchanged
              /\ requests' \in {<<>>, requests})]_vars

C17_Witness ==
    /\ pc = "idle"
    /\ run.path = <<"researcher">>
    /\ run.campaignId = CampaignId(0)
    /\ resp.json = <<ErrorBody("Campaign not found")>>
    /\ resp.handoff = <<>>
    /\ DOMAIN campaigns # {}
    /\ run.campaignId \notin DOMAIN campaigns

HandsOffTo(r, name) ==
    /\ r.json = <<>>
    /\ Len(r.handoff) = 1
    /\ r.handoff[1].name = name

\* C19: whether the extraction and the analysis succeed or fail, a research
\* invocation that found its campaign hands off to copywriting with a
\* research value; whether the generations succeed or fail, a copywriting
\* invocation that found its campaign hands off to scheduling with the content
\* stored, or returns the error of a failed save and no other; and the content
\* holds at least one Post when the generation of the posts failed and at
\* least one Thread with a tweet when the generation of the threads failed.
C19_FallbacksKeepRunGoing ==
    [][/\ pc = "researcher_attach" =>
             /\ HandsOffTo(resp', "copywriter")
             /\ resp'.handoff[1].data.research # None
       /\ pc = "copywriter_attach" =>
             \/ /\ HandsOffTo(resp', "scheduler")
                /\ campaigns'[local.campaign[1].id].content # None
             \/ /\ resp' = Json(ErrorBody("Failed to save campaign with generated content"))
                /\ faults' > faults
       /\ pc = "copywriter_attach" =>
             \A genPosts \in CollaboratorEnv.posts, genThreads \in CollaboratorEnv.threads :
                (genPosts = None \/ genThreads = None) =>
                LET result  == CopywriterAttach(TheStore, local.campaign[1], local.data,
                                                genPosts, genThreads, clock, NoFault)
                    content == result.st.campaigns[local.campaign[1].id].content[1]
                IN  /\ HandsOffTo(result.resp, "scheduler")
                    /\ genPosts = None =>
                          /\ Len(content.linkedInPosts) > 0
                          /\ \A i \in 1..Len(content.linkedInPosts) :
                                content.linkedInPosts[i].content # <<>>
                    /\ genThreads = None =>
                          /\ Len(content.twitterThreads) > 0
                          /\ \A i \in 1..Len(content.twitterThreads) :
                                Len(content.twitterThreads[i].tweets) > 0]_vars

C19_Witness ==
    /\ pc = "idle"
    /\ run.path = <<"manager", "researcher", "copywriter">>
    /\ HandsOffTo(resp, "scheduler")
    /\ Persisted.research # None
    /\ Persisted.research[1].kind = "fallback"
    /\ Persisted.content # None
    /\ Persisted.content[1].linkedInPosts = <<Post("linkedin", <<"f">>)>>
    /\ Len(Persisted.content[1].twitterThreads) = 1
    /\ Len(Persisted.content[1].twitterThreads[1].tweets) = 4

\* The record in r is that of a create(), a get(), a list().
IsCreated(r) == r # None /\ "ok" \in DOMAIN r[1]

IsGot(r) == r # None /\ "id" \in DOMAIN r[1]

IsListed(r) == r # None /\ "listed" \in DOMAIN r[1]

\* C20: create(topic) with a topic that is blank after trimming throws and
\* leaves the campaign store and the index as they were; with a non-blank
\* topic and no kv call throwing it returns a campaign with that topic and the
\* status planning, which the next get(id) returns and the next list()
\* contains; when the write of the campaign throws it throws, returns no
\* campaign and stores none.
C20_Create ==
    [][/\ IsCreated(found') =>
             LET c == found'[1]
             IN  /\ IsBlank(c.topic) => (~c.ok /\ c.campaign = None /\ StoreUnchanged)
                 /\ ~c.f.set => (~c.ok /\ c.campaign = None /\ StoreUnchanged)
                 /\ (~IsBlank(c.topic) /\ c.f = NoFault) =>
                       /\ c.ok
                       /\ c.campaign # None
                       /\ c.campaign[1].topic = c.topic
                       /\ c.campaign[1].status = "planning"
                       /\ c.campaign[1].id = CampaignId(clock')
       /\ (IsCreated(found) /\ found[1].ok /\ found[1].f = NoFault) =>
             /\ (IsGot(found') /\ found'[1].id = found[1].campaign[1].id)
                   => found'[1].result = found[1].campaign
             /\ IsListed(found')
                   => found[1].campaign[1] \in Range(found'[1].result)]_vars

C20_Witness ==
    /\ IsGot(found)
    /\ found[1].result # None
    /\ found[1].result[1].status = "planning"
    /\ found[1].id = CampaignId(clock)
    /\ Len(campaignsIndex) = 2
    /\ faults = 0

\* C21: the successful create calls so far returned pairwise distinct ids, also
\* when two of them read the same clock value, so that the store holds one
\* record for each of them and none was overwritten by a later create.
C21_DistinctIds ==
    /\ \A id \in SavedIds : CopiesIn(id, saves) = 1
    /\ Cardinality(DOMAIN campaigns) = BagCardinality(saves)

\* C22: get(id) returns for every id, blank, unknown or known, and whether or
\* not the store read throws: the not-found value for a blank id, an id the
\* store lacks and a read that throws, the stored campaign otherwise; and it
\* leaves the campaign store and the index as they were.
C22_GetNeverRaises ==
    [][IsGot(found') =>
          LET g == found'[1]
          IN  /\ StoreUnchanged
              /\ (IsBlankId(g.id) \/ g.id \notin DOMAIN campaigns \/ faults' > faults)
                    => g.result = None
              /\ (g.id \in DOMAIN campaigns /\ faults' = faults)
                    => g.result = Some(campaigns[g.id])]_vars

C22_Witness ==
    /\ IsGot(found)
    /\ found[1].id \in DOMAIN campaigns
    /\ found[1].result = None
    /\ faults = 1
    /\ Len(campaignsIndex) = 2

\* The step saves a campaign under id: a save of it, or a status update of it.
SavesId(id) ==
    \/ CopiesIn(id, saves') > CopiesIn(id, saves)
    \/ /\ found' # None
       /\ "campaignId" \in DOMAIN found'[1]
       /\ found'[1].campaignId = id

\* The outcomes of the store read of a get(id).
ReadOutcomes == {NoFault} \cup GetOutcomes

IsUpdated(r) == r # None /\ "campaignId" \in DOMAIN r[1]

\* C24: updateStatus(id, s) on a stored campaign leaves every field of the
\* stored record but status and updatedAt as it was, and when no kv call fails
\* the record is the old one with status s and the new updatedAt; every other
\* campaign is unchanged and no key is added; on an id that is not in the store
\* it returns not-found and writes nothing.
C24_UpdateStatusFrame ==
    [][IsUpdated(found') =>
          LET u  == found'[1]
              id == u.campaignId
          IN  /\ DOMAIN campaigns' = DOMAIN campaigns
              /\ \A k \in DOMAIN campaigns : k # id => campaigns'[k] = campaigns[k]
              /\ id \in DOMAIN campaigns =>
                    LET after == [campaigns[id] EXCEPT !.status = u.status,
                                                       !.updatedAt = clock']
                    IN  /\ campaigns'[id] \in {campaigns[id], after}
                        /\ faults' = faults =>
                              /\ campaigns'[id] = after
                              /\ u.updated = Some(after)
              /\ id \notin DOMAIN campaigns =>
                    /\ u.updated = None
                    /\ StoreUnchanged]_vars

C24_Witness ==
    /\ IsUpdated(found)
    /\ found[1].campaignId = CampaignId(2)
    /\ found[1].updated # None
    /\ faults = 0
    /\ campaigns[CampaignId(2)].status = "writing"
    /\ campaigns[CampaignId(2)].research # None
    /\ campaigns[CampaignId(2)].updatedAt > campaigns[CampaignId(2)].createdAt
    /\ CampaignId(1) \in DOMAIN campaigns
    /\ campaigns[CampaignId(1)].status = "planning"

\* The campaigns list() returns hold one with this id.
Lists(st, id) ==
    \E i \in DOMAIN ListCampaigns(st, NoFault) : ListCampaigns(st, NoFault)[i].id = id

\* C29: a save whose campaign write returns and whose index read or index
\* write then throws still reports success, stores the campaign and leaves the
\* index as it was: get(id) returns the campaign, and list() does not return
\* it when the id was not in the index before.
C29_FaultedSaveSplitsGetFromList ==
    [][(faults' > faults /\ BagCardinality(saves') > BagCardinality(saves)) =>
          \E id \in StoreIds :
             /\ saves' = saves (+) SetToBag({id})
             /\ GetCampaign(TheStore', id, NoFault) = Some(campaigns'[id])
             /\ campaignsIndex' = campaignsIndex
             /\ id \notin Range(campaignsIndex) => ~Lists(TheStore', id)]_vars

C29_Witness ==
    /\ faults = 1
    /\ CopiesIn(CampaignId(1), saves) = 1
    /\ GetCampaign(TheStore, CampaignId(1), NoFault) # None
    /\ ~Lists(TheStore, CampaignId(1))
    /\ Lists(TheStore, CampaignId(2))

\* The last repository call was a list() some of whose campaign reads threw.
IsListedBut(r) == r # None /\ "failing" \in DOMAIN r[1]

\* The index ids that resolve when the reads of the ids in failing throw.
Resolving(failing) ==
    SelectSeq(campaignsIndex,
              LAMBDA id : id \in DOMAIN campaigns /\ id \notin failing)

\* C30: list() returns, in index order, the campaign of every index id that
\* resolves and nothing for an index id that does not, whether none or some
\* of its campaign reads fail; it leaves the campaigns and the index as they
\* were.
C30_ListOmitsUnresolvable ==
    [][/\ IsListedBut(found') =>
             LET l == found'[1]
             IN  /\ StoreUnchanged
                 /\ Len(l.answer) = Len(Resolving(l.failing))
                 /\ \A i \in DOMAIN l.answer :
                       l.answer[i] = campaigns[Resolving(l.failing)[i]]
       /\ IsListed(found') =>
             /\ StoreUnchanged
             /\ Len(found'[1].listed) = Len(Resolving({}))
             /\ \A i \in DOMAIN found'[1].listed :
                   found'[1].listed[i] = campaigns[Resolving({})[i]]]_vars

C30_Witness ==
    /\ IsListedBut(found)
    /\ Len(campaignsIndex) = 2
    /\ Cardinality(found[1].failing) = 1
    /\ Len(found[1].answer) = 1
    /\ found[1].answer[1].id \notin found[1].failing

\* An invocation has ended a saveCampaign that returned true.
SavedBy(p) == inflight[p].at = "done" /\ inflight[p].ok

\* C25: in every state of concurrent saves, between the two writes of a save
\* and after a save one of whose kv calls threw, every id in the index is the
\* key of a stored campaign of that id, which get(id) returns.
C25_IndexResolves ==
    \A i \in DOMAIN campaignsIndex :
       /\ campaignsIndex[i] \in DOMAIN campaigns
       /\ campaigns[campaignsIndex[i]].id = campaignsIndex[i]
       /\ GetCampaign(TheStore, campaignsIndex[i], NoFault)
             = Some(campaigns[campaignsIndex[i]])

C25_Witness ==
    /\ inflight[1].at = "push"
    /\ inflight[2].at = "index"
    /\ inflight[1].campaign[1].id # inflight[2].campaign[1].id
    /\ faults = 1
    /\ Len(campaignsIndex) = 1
    /\ Cardinality(DOMAIN campaigns) = 2

\* C26: the index never holds an id twice, in any state of any interleaving
\* of saves, concurrent saves of one id included; nor does the array an
\* invocation is about to write.
C26_IndexHasNoDuplicates ==
    /\ \A i, j \in DOMAIN campaignsIndex :
          campaignsIndex[i] = campaignsIndex[j] => i = j
    /\ \A p \in Invocations :
          \A i, j \in DOMAIN inflight[p].campaignIds :
             inflight[p].campaignIds[i] = inflight[p].campaignIds[j] => i = j

C26_Witness ==
    /\ SavedBy(1)
    /\ inflight[2].at = "push"
    /\ inflight[1].campaign[1].id = inflight[2].campaign[1].id
    /\ inflight[2].campaignIds = <<inflight[2].campaign[1].id>>
    /\ campaignsIndex = <<inflight[1].campaign[1].id>>

\* C27: an index write sets the index to the array its invocation read with
\* its id pushed on it, whatever the index holds by then: an id another
\* invocation added since that read is in the index no more. Two saves of
\* distinct new ids can so both return true and leave one id in the index.
C27_IndexWriteIsStale ==
    [][\A p \in Invocations :
          (inflight[p].at = "push" /\ inflight'[p].at = "done" /\ faults' = faults) =>
             /\ inflight'[p].ok
             /\ campaignsIndex' = inflight[p].campaignIds
             /\ \A id \in Range(campaignsIndex) \ Range(inflight[p].campaignIds) :
                   /\ id \notin Range(campaignsIndex')
                   /\ ~Lists(TheStore', id)
                   /\ GetCampaign(TheStore', id, NoFault) # None]_vars

C27_Witness ==
    /\ SavedBy(1)
    /\ SavedBy(2)
    /\ faults = 0
    /\ BagCardinality(saves) = 2
    /\ inflight[1].campaign[1].id # inflight[2].campaign[1].id
    /\ campaignsIndex = <<inflight[1].campaign[1].id>>
    /\ GetCampaign(TheStore, inflight[2].campaign[1].id, NoFault) # None
    /\ ~Lists(TheStore, inflight[2].campaign[1].id)

\* C28: a campaign write stores the copy its invocation holds, whatever is
\* stored under the id by then, and leaves the other campaigns as they were:
\* a status or an attachment another invocation saved since that copy was read
\* is in the stored record no more.
C28_CampaignWriteIsWhole ==
    [][\A p \in Invocations :
          (inflight[p].at = "write" /\ inflight'[p].at = "index") =>
             LET c == inflight[p].campaign[1]
             IN  /\ DOMAIN campaigns' = DOMAIN campaigns \cup {c.id}
                 /\ campaigns'[c.id] = Sanitize(c)
                 /\ \A k \in DOMAIN campaigns : k # c.id => campaigns'[k] = campaigns[k]]_vars

C28_Witness ==
    /\ SavedBy(1)
    /\ SavedBy(2)
    /\ faults = 0
    /\ inflight[1].campaign[1].id = inflight[2].campaign[1].id
    /\ inflight[1].campaign[1].research # None
    /\ inflight[2].campaign[1].status = "active"
    /\ campaigns[inflight[1].campaign[1].id].research = None
    /\ campaigns[inflight[1].campaign[1].id].status = "active"

\* C34: whenever a save returns success, the campaign is stored under its id
\* and the id is in the index.
C34_SuccessMeansIndexed ==
    [][\A id \in StoreIds :
          CopiesIn(id, saves') > CopiesIn(id, saves) =>
             /\ id \in DOMAIN campaigns'
             /\ id \in Range(campaignsIndex')]_vars

\* The last repository call was a save.
IsSaved(r) == r # None /\ "saving" \in DOMAIN r[1]

\* C40: after a save(c) that returned success, get(c.id) returns a campaign
\* equal to c on each of its ten fields, whatever was stored under the id
\* before, and get of every other id returns what it returned before; a save
\* that returned failure, as every save with a blank id does, wrote nothing.
C40_SaveThenGet ==
    [][IsSaved(found') =>
          LET c == found'[1].saving
          IN  /\ found'[1].returned =>
                    /\ GetCampaign(TheStore', c.id, NoFault) = Some(c)
                    /\ \A id \in CallIds \ {c.id} :
                          GetCampaign(TheStore', id, NoFault)
                             = GetCampaign(TheStore, id, NoFault)
              /\ IsBlankId(c.id) => ~found'[1].returned
              /\ ~found'[1].returned => StoreUnchanged]_vars

C40_Witness ==
    /\ IsSaved(found)
    /\ found[1].returned
    /\ found[1].saving.id = CampaignId(1)
    /\ found[1].saving.research # None
    /\ CopiesIn(CampaignId(1), saves) = 2
    /\ campaigns[CampaignId(1)] = found[1].saving
    /\ CampaignId(2) \in DOMAIN campaigns

\* The group and the date of each record, in the order of the records.
Dates(records) ==
    [k \in 1..Len(records) |-> <<records[k].postId, records[k].scheduledDate>>]

\* C31: the records a scheduler invocation stores carry, group by group, the
\* dates the same invocation would have stored had every publish request
\* succeeded: the date of a group follows from the base date and the position
\* of the group, not from which requests succeed or fail, so any two runs that
\* differ in the outcomes only record the same dates.
C31_DatesIgnoreOutcomes ==
    [][(pc \in {"scheduler_attach", "scheduler_attach_v2"} /\ pc' = "scheduler_finish") =>
          LET content == local.campaign[1].content[1]
              oks == [k \in 1..(Len(content.linkedInPosts) + Len(content.twitterThreads))
                        |-> TRUE]
          IN  Dates(SchedulerAttach(TheStore, local.campaign[1], local.date,
                                    pc = "scheduler_attach_v2", oks, clock', NoFault)
                       .campaign.schedulingInfo[1].scheduledPosts)
                 = Dates(local'.campaign[1].schedulingInfo[1].scheduledPosts)]_vars

C31_Witness ==
    /\ pc = "scheduler_finish"
    /\ Len(requests) = 2
    /\ ~requests[1].ok
    /\ requests[2].ok
    /\ LET records == Scheduled.schedulingInfo[1].scheduledPosts
       IN  /\ Len(records) = 2
           /\ records[1].status = "failed"
           /\ records[2].scheduledDate = records[1].scheduledDate + 1

\* C32: the research a researcher invocation stores is the one made from the
\* topic and the description of the campaign it re-fetched by id, whatever
\* topic and description its payload carries.
C32_StoredFieldsWin ==
    [][(pc = "researcher_attach" /\ pc' = "idle") =>
          LET campaign == local.campaign[1]
          IN  campaigns'[campaign.id].research
                 = Some(ResearchFromSource(campaign.topic, campaign.description,
                                           local.data.source, TRUE, TRUE))]_vars

\* C33: the record stored under a key has that key as its id; no step removes
\* a key or changes the id of a stored record; and a step of a stage adds no
\* key and writes under the id of its run only.
C33_IdIsKey ==
    [][/\ \A k \in DOMAIN campaigns' : campaigns'[k].id = k
       /\ \A k \in DOMAIN campaigns :
             k \in DOMAIN campaigns' /\ campaigns'[k].id = campaigns[k].id
       /\ ~Invoked("manager") =>
             /\ DOMAIN campaigns' = DOMAIN campaigns
             /\ \A k \in DOMAIN campaigns :
                   k # run'.campaignId => campaigns'[k] = campaigns[k]]_vars

C33_Witness ==
    /\ pc = "idle"
    /\ Len(run.path) = 4
    /\ run.path[4] = "scheduler"
    /\ run.campaignId \in DOMAIN campaigns
    /\ Persisted.id = run.campaignId
    /\ Persisted.research # None
    /\ Persisted.content # None
    /\ Persisted.schedulingInfo # None

\* C35: after any sequence of intakes, run one at a time from an empty store,
\* no two stored campaigns have the same topic up to case and surrounding
\* blanks.
C35_OneCampaignPerTopic ==
    \A j, k \in DOMAIN campaigns :
       Normalized(campaigns[j].topic) = Normalized(campaigns[k].topic) => j = k

\* The stored campaigns with the normalized topic t.
WithTopic(t) == {k \in DOMAIN campaigns : Normalized(campaigns[k].topic) = t}

\* C36: whatever the interleaving of the searches and the creates of two
\* concurrent intakes for one normalized topic, at most one campaign is stored
\* for that topic.
C36_OneCampaignPerTopicRace ==
    \A p, q \in Invocations :
       (/\ SavedBy(p)
        /\ SavedBy(q)
        /\ Normalized(inflight[p].campaign[1].topic)
              = Normalized(inflight[q].campaign[1].topic))
       => Cardinality(WithTopic(Normalized(inflight[p].campaign[1].topic))) <= 1

\* C37: when research hands off to copywriting the stored campaign holds the
\* research the payload carries, and when copywriting hands off to scheduling
\* the stored campaign holds content.
C37_HandoffAfterPersist ==
    [][/\ (pc = "researcher_attach" /\ HandsOffTo(resp', "copywriter")) =>
             LET data == resp'.handoff[1].data
             IN  /\ data.campaignId \in DOMAIN campaigns'
                 /\ campaigns'[data.campaignId].research = data.research
       /\ (pc = "copywriter_attach" /\ HandsOffTo(resp', "scheduler")) =>
             LET data == resp'.handoff[1].data
             IN  /\ data.campaignId \in DOMAIN campaigns'
                 /\ campaigns'[data.campaignId].content # None]_vars

\* The stages a stage may hand off to.
NextStages(stage) ==
    IF stage = "manager" THEN {"researcher", "copywriter"}
    ELSE IF stage = "researcher" THEN {"copywriter"}
    ELSE IF stage = "copywriter" THEN {"scheduler"}
    ELSE {}

\* The run has ended with a terminal response.
RunEnded ==
    /\ pc = "idle"
    /\ Len(resp.json) = 1
    /\ resp.handoff = <<>>

\* C38: a run started at intake has at most four stage invocations; a stage
\* hands off to a later stage only, as the table of handoffs has it, and the
\* scheduler to none; a stage in flight can always take its next step; and on
\* a platform that delivers every handoff, every run ends with a terminal
\* response.
C38_RunsEnd ==
    /\ [][/\ run'.intake => Len(run'.path) <= 4
          /\ (run'.path # <<>> /\ Len(resp'.handoff) > 0) =>
                /\ Len(resp'.handoff) = 1
                /\ resp'.handoff[1].name \in NextStages(run'.path[Len(run'.path)])
          /\ pc' # "idle" =>
                /\ StageNow(PipelineEnv)' # {}
                /\ faults' <= MaxFaults
                /\ local'.campaign # None]_vars
    /\ (run.intake /\ run.path # <<>>) ~> RunEnded

C38_Witness ==
    /\ RunEnded
    /\ run.intake
    /\ Len(run.path) = 4
    /\ run.path[2] = "researcher"
    /\ ~run.clean
    /\ "status" \in DOMAIN resp.json[1]
    /\ resp.json[1].status = "error"

\* C39: no step takes the research, the content or the schedulingInfo off a
\* stored campaign that holds it.
C39_AttachmentsStay ==
    [][\A k \in DOMAIN campaigns :
          /\ k \in DOMAIN campaigns'
          /\ campaigns[k].research # None => campaigns'[k].research # None
          /\ campaigns[k].content # None => campaigns'[k].content # None
          /\ campaigns[k].schedulingInfo # None
                => campaigns'[k].schedulingInfo # None]_vars

====
